---- MODULE Spec2Model ----
(***************************************************************************)
(* Model of the Aegis backend core: orbital element extraction, the shared *)
(* time grid, the synchronized asteroid/Earth trajectories and the impact  *)
(* physics validation chain (src/backend/orbital_calculator.py,            *)
(* src/backend/impact_calculator.py).                                      *)
(*                                                                         *)
(* The entry points are functions of their arguments, of the answers of    *)
(* the external providers (poliastro propagation, Earth ephemeris, the     *)
(* remote small-body database) and, where they fetch from the database, of *)
(* the process-wide circuit breaker of src/backend/error_handlers.py.      *)
(*                                                                         *)
(* Spec is one invocation in a fresh process: Init draws the entry point,  *)
(* its arguments and the providers' answers; the action of the entry point *)
(* applies it.  Session is a process serving one invocation after another. *)
(* Breaker is one CircuitBreaker used by one caller at a time, Concurrent  *)
(* the same with several callers whose calls overlap.                      *)
(***************************************************************************)
EXTENDS Integers, Sequences, FiniteSets, TLC

VARIABLES
    call, args, result,         \* the invocation and its outcome
    nasa_api_circuit_breaker,   \* the module-level CircuitBreaker instance
    clock,                      \* time.time(), in seconds
    earlier,                    \* an invocation the process completed before
    in_flight,                  \* per caller of the circuit breaker: "idle", or
                                \* the breaker's state when its call was let in
    streak                      \* calls of the circuit breaker that raised since
                                \* the last one that returned

vars ==
    <<call, args, result, nasa_api_circuit_breaker, clock, earlier, in_flight,
      streak>>

(***************************************************************************)
(* Bounds of the model.                                                    *)
(***************************************************************************)
\* largest grid index at which an external provider is made to fail
MaxIdx == 3
\* largest "small" num_points drawn (besides the values around the 10000 cap)
MaxN == 4
\* number of concurrent callers of a circuit breaker
MaxCallers == 2
\* largest failure_threshold of a circuit breaker
MaxThreshold == 3

(***************************************************************************)
(* Python floats.  A float is finite (val is its value), NaN or +-inf.     *)
(* Orbital quantities (Julian dates, AU, degrees, eccentricity) are held   *)
(* in tenths, so 2415020.5 is 24150205 and e = 1.0 is 10.                  *)
(***************************************************************************)
Fin(v) == [kind |-> "fin", val |-> v]
NaN == [kind |-> "nan", val |-> 0]
PosInf == [kind |-> "inf", val |-> 1]
NegInf == [kind |-> "inf", val |-> -1]
\* a negative finite float nearer to zero than half the spacing of the
\* floats just below 360 (for instance -1e-20)
NegTiny == [kind |-> "tiny", val |-> -1]
\* an argument that is neither int nor float
NotANumber == [kind |-> "str", val |-> 0]
\* isinstance(x, (int, float))
IsNumber(x) == x.kind # "str"

\* math.isfinite
isfinite(x) == x.kind \in {"fin", "tiny"}

\* position of a non-NaN float among -inf < finite < +inf
FClass(x) == IF x.kind = "inf" THEN x.val ELSE 0

\* position of a finite float among the finite floats: NegTiny lies between
\* the negative tenths and zero
FRank(x) == IF x.kind = "tiny" THEN -1 ELSE 2 * x.val

\* IEEE-754 comparisons: every comparison with a NaN operand is False
FLT(x, y) ==
    /\ x.kind # "nan"
    /\ y.kind # "nan"
    /\ \/ FClass(x) < FClass(y)
       \/ /\ isfinite(x)
          /\ isfinite(y)
          /\ FRank(x) < FRank(y)

FEQ(x, y) ==
    /\ x.kind # "nan"
    /\ y.kind # "nan"
    /\ x.kind = y.kind
    /\ x.val = y.val

FLE(x, y) == FLT(x, y) \/ FEQ(x, y)
FGT(x, y) == FLT(y, x)
FGE(x, y) == FLE(y, x)

(***************************************************************************)
(* Outcomes of a call: a returned value or a raised exception.             *)
(***************************************************************************)
ImpactCalculationError == "ImpactCalculationError"
OrbitalCalculationError == "OrbitalCalculationError"

\* what a call did to its collaborators: the shared grid it built, the number
\* of orbit.propagate calls and of Orbit.from_body_ephem lookups it made
NoEffects == [grid |-> <<>>, propagations |-> 0, lookups |-> 0]

\* detail holds the data an error message carries (the missing keys)
Return(v) ==
    [status |-> "ok", exc |-> "", msg |-> "", detail |-> <<>>, value |-> v,
     effects |-> NoEffects]
Raise(e, m) ==
    [status |-> "error", exc |-> e, msg |-> m, detail |-> <<>>,
     value |-> <<>>, effects |-> NoEffects]
Pending ==
    [status |-> "pending", exc |-> "", msg |-> "", detail |-> <<>>,
     value |-> <<>>, effects |-> NoEffects]
WithEffects(r, eff) == [r EXCEPT !.effects = eff]
WithDetail(r, d) == [r EXCEPT !.detail = d]

(***************************************************************************)
(* astropy Time.  An instant is jd + num/den tenths of a day.              *)
(***************************************************************************)
Time(jd) == [jd |-> jd, num |-> 0, den |-> 1]

\* a <= b on instants
TimeLE(a, b) ==
    (a.jd - b.jd) * a.den * b.den + a.num * b.den - b.num * a.den <= 0

\* (end_time - start_time).to(u.day).value, for instants built by Time(jd)
TimeDiff(end_time, start_time) == end_time.jd - start_time.jd

\* Python floats round every quotient and product to a significand of
\* fixed width (53 bits in the program); the model keeps MantissaBits bits
MantissaBits == 15

\* the powers of two that fit an integer
Pow2Table ==
    LET pow[k \in 0..30] == IF k = 0 THEN 1 ELSE 2 * pow[k - 1]
    IN  pow
Pow2(k) == Pow2Table[k]

\* a / b rounded to the nearest integer, ties to even (a >= 0, b > 0)
RoundDiv(a, b) ==
    LET q == a \div b
        r == a % b
    IN  IF 2 * r > b \/ (2 * r = b /\ q % 2 = 1) THEN q + 1 ELSE q

\* the least k from which a * 2^k / b has MantissaBits significant bits
RECURSIVE Scale(_, _, _)
Scale(a, b, k) ==
    IF a * Pow2(k) >= Pow2(MantissaBits - 1) * b THEN k ELSE Scale(a, b, k + 1)

\* the float a / b (0 < a / b < 2^MantissaBits): the value m / den
FloatDiv(a, b) ==
    LET k == Scale(a, b, 0)
    IN  [m |-> RoundDiv(a * Pow2(k), b), den |-> Pow2(k)]

\* the number of bits of the integers up to twice the largest grid index
BitLength ==
    LET bits[h \in 0..(2 * 10000)] == IF h = 0 THEN 0 ELSE 1 + bits[h \div 2]
    IN  bits

\* the float nearest to the integer x: the bits of x beyond MantissaBits
\* are rounded away
FloatRound(x) ==
    LET unit == Pow2(BitLength[x \div Pow2(MantissaBits)])
    IN  RoundDiv(x, unit) * unit

\* start_time + i * time_step * u.day: the product is rounded, the sum of
\* an instant and an offset is exact at this resolution
TimeAdd(start_time, i, time_step) ==
    [jd |-> start_time.jd, num |-> FloatRound(i * time_step.m),
     den |-> time_step.den]

\* 2 * u.year (Julian years of 365.25 days), in tenths of a day
TWO_YEARS == 7305
\* bounds of the accepted epoch window, in tenths of a day
EPOCH_MIN == 24150205
EPOCH_MAX == 24880705
\* largest accepted num_points
MAX_NUM_POINTS == 10000

\* num_points as passed by the caller: an int, or a value of another type
IntArg(n) == [is_int |-> TRUE, val |-> n]
NonInt == [is_int |-> FALSE, val |-> 0]

\* create_time_range rejecting a grid of two points
create_time_range_min3(start_time, end_time, num_points) ==
    IF ~num_points.is_int \/ num_points.val <= 0
    THEN Raise(ImpactCalculationError, "Invalid num_points")
    ELSE IF num_points.val < 3
    THEN Raise(ImpactCalculationError, "num_points must be at least 2")
    ELSE IF num_points.val > MAX_NUM_POINTS
    THEN Raise(ImpactCalculationError, "num_points too large")
    ELSE IF TimeLE(end_time, start_time)
    THEN Raise(ImpactCalculationError, "end_time must be after start_time")
    ELSE LET total_duration == TimeDiff(end_time, start_time)
             n == num_points.val
         IN  IF total_duration <= 0
             THEN Raise(ImpactCalculationError, "Invalid time duration")
             ELSE LET time_step == FloatDiv(total_duration, n - 1)
                  IN  Return([i \in 1..n |->
                                TimeAdd(start_time, i - 1, time_step)])

\* create_time_range with the cap test written >= instead of >
create_time_range_cap_exclusive(start_time, end_time, num_points) ==
    IF ~num_points.is_int \/ num_points.val <= 0
    THEN Raise(ImpactCalculationError, "Invalid num_points")
    ELSE IF num_points.val < 2
    THEN Raise(ImpactCalculationError, "num_points must be at least 2")
    ELSE IF num_points.val >= MAX_NUM_POINTS
    THEN Raise(ImpactCalculationError, "num_points too large")
    ELSE IF TimeLE(end_time, start_time)
    THEN Raise(ImpactCalculationError, "end_time must be after start_time")
    ELSE LET total_duration == TimeDiff(end_time, start_time)
             n == num_points.val
         IN  IF total_duration <= 0
             THEN Raise(ImpactCalculationError, "Invalid time duration")
             ELSE LET time_step == FloatDiv(total_duration, n - 1)
                  IN  Return([i \in 1..n |->
                                TimeAdd(start_time, i - 1, time_step)])

create_time_range(start_time, end_time, num_points) ==
    IF ~num_points.is_int \/ num_points.val <= 0
    THEN Raise(ImpactCalculationError, "Invalid num_points")
    ELSE IF num_points.val < 2
    THEN Raise(ImpactCalculationError, "num_points must be at least 2")
    ELSE IF num_points.val > MAX_NUM_POINTS
    THEN Raise(ImpactCalculationError, "num_points too large")
    ELSE IF TimeLE(end_time, start_time)
    THEN Raise(ImpactCalculationError, "end_time must be after start_time")
    ELSE LET total_duration == TimeDiff(end_time, start_time)
             n == num_points.val
         IN  IF total_duration <= 0
             THEN Raise(ImpactCalculationError, "Invalid time duration")
             ELSE LET time_step == FloatDiv(total_duration, n - 1)
                  IN  Return([i \in 1..n |->
                                TimeAdd(start_time, i - 1, time_step)])

(***************************************************************************)
(* Trajectory points.  A point is the position of a body at an instant     *)
(* (the field t), as answered by the provider named in kind; the literal   *)
(* vectors [0,0,0] and [1,0,0] belong to no instant.                       *)
(***************************************************************************)
NoTime == [jd |-> 0, num |-> 0, den |-> 1]
\* orbit.propagate(time - epoch_time).r
Propagated(time) == [kind |-> "propagated", t |-> time]
\* Orbit.from_body_ephem(Earth, time).r
Ephemeris(time) == [kind |-> "ephemeris", t |-> time]
\* [cos(angle), sin(angle), 0.0] with angle = 2*pi*(time - times[0])/365.25
Circular(time) == [kind |-> "circular", t |-> time]
ZeroPoint == [kind |-> "zero", t |-> NoTime]
UnitXPoint == [kind |-> "unit_x", t |-> NoTime]

(***************************************************************************)
(* extract_orbital_elements.  A record holds the three sections the code   *)
(* looks up; a raw value is what float() makes of it: a float, or a        *)
(* ValueError/TypeError.                                                   *)
(***************************************************************************)
Parsed(x) == [parses |-> TRUE, num |-> x]
Unparsable == [parses |-> FALSE, num |-> NaN]

Entry(name, raw) ==
    [has_name |-> TRUE, has_value |-> TRUE, name |-> name, value |-> raw]
\* an entry without "value", and one without "name"
EntryNoValue(name) == [Entry(name, Unparsable) EXCEPT !.has_value = FALSE]
EntryNoName(raw) == [Entry("", raw) EXCEPT !.has_name = FALSE]

RequiredElements == <<"a", "e", "i", "om", "w", "ma">>
\* the names an entry may carry: the required ones and a foreign one
ElementNames == {"a", "e", "i", "om", "w", "ma", "q", ""}

EmptyDict == [k \in ElementNames |-> [present |-> FALSE, value |-> NaN]]

\* elements_dict[name] assigned before the value is converted, so that an
\* entry with an unparsable value still leaves its key in the dictionary
RECURSIVE elements_dict_keep_unparsed(_, _)
elements_dict_keep_unparsed(entries, k) ==
    IF k = 0
    THEN EmptyDict
    ELSE LET d == elements_dict_keep_unparsed(entries, k - 1)
             element == entries[k]
         IN  IF ~element.has_name \/ ~element.has_value
             THEN d
             ELSE [d EXCEPT ![element.name] =
                      [present |-> TRUE, value |-> element.value.num]]

\* elements_dict after the first k entries of orbit_data["elements"]
RECURSIVE elements_dict(_, _)
elements_dict(entries, k) ==
    IF k = 0
    THEN EmptyDict
    ELSE LET d == elements_dict(entries, k - 1)
             element == entries[k]
         IN  IF ~element.has_name \/ ~element.has_value
             THEN d
             ELSE IF ~element.value.parses
             THEN d
             ELSE [d EXCEPT ![element.name] =
                      [present |-> TRUE, value |-> element.value.num]]

\* x % 360 on Python floats (in tenths of a degree): the result has the sign
\* of the divisor; inf % 360 and nan % 360 are nan
\* x % 360 on floats: fmod(x, 360) is exact and 360 is added to a negative
\* remainder; the sum is rounded, so a negative remainder nearer to zero
\* than half the spacing of the floats below 360 gives 360.0
FMod360(x) ==
    IF x.kind = "fin" THEN Fin(x.val % 3600)
    ELSE IF x.kind = "tiny" THEN Fin(3600)
    ELSE NaN

extract_orbital_elements(nasa_response) ==
    IF ~nasa_response.has_orbit
    THEN Raise(OrbitalCalculationError, "Missing 'orbit' section")
    ELSE IF ~nasa_response.has_elements
    THEN Raise(OrbitalCalculationError, "Missing 'elements' section")
    ELSE IF ~nasa_response.has_epoch
    THEN Raise(OrbitalCalculationError, "Missing 'epoch'")
    ELSE IF ~nasa_response.epoch.parses
    THEN Raise(OrbitalCalculationError, "Unexpected error: Invalid epoch value")
    ELSE IF ~isfinite(nasa_response.epoch.num)
    THEN Raise(OrbitalCalculationError, "Unexpected error: Invalid epoch time")
    ELSE IF \/ FLT(nasa_response.epoch.num, Fin(EPOCH_MIN))
            \/ FGT(nasa_response.epoch.num, Fin(EPOCH_MAX))
    THEN Raise(OrbitalCalculationError,
               "Unexpected error: Epoch is outside reasonable range")
    ELSE
    LET epoch == nasa_response.epoch.num
        dict == elements_dict(nasa_response.elements,
                              Len(nasa_response.elements))
        missing_elements ==
            SelectSeq(RequiredElements, LAMBDA name : ~dict[name].present)
        a == dict["a"].value
        e == dict["e"].value
        i == dict["i"].value
        om == dict["om"].value
        w == dict["w"].value
        ma == dict["ma"].value
    IN  IF missing_elements # <<>>
        THEN WithDetail(Raise(OrbitalCalculationError,
                              "Missing required orbital elements"),
                        missing_elements)
        ELSE IF FLE(a, Fin(0))
        THEN Raise(OrbitalCalculationError, "Semi-major axis must be positive")
        ELSE IF FLT(e, Fin(0)) \/ FGE(e, Fin(10))
        THEN Raise(OrbitalCalculationError,
                   "Eccentricity must be in range [0, 1)")
        ELSE IF FLT(i, Fin(0)) \/ FGT(i, Fin(1800))
        THEN Raise(OrbitalCalculationError,
                   "Inclination must be in range [0, 180]")
        ELSE Return([is_oe |-> TRUE,
                     semi_major_axis |-> a,
                     eccentricity |-> e,
                     inclination |-> i,
                     longitude_ascending_node |-> FMod360(om),
                     argument_periapsis |-> FMod360(w),
                     mean_anomaly |-> FMod360(ma),
                     epoch |-> epoch])

validate_orbital_elements(elements) ==
    LET values == <<elements.semi_major_axis, elements.eccentricity,
                    elements.inclination,
                    elements.longitude_ascending_node,
                    elements.argument_periapsis, elements.mean_anomaly,
                    elements.epoch>>
    IN  IF \E k \in 1..Len(values) : ~isfinite(values[k])
        THEN Raise(OrbitalCalculationError, "Validation error")
        ELSE IF FLE(elements.semi_major_axis, Fin(0))
        THEN Raise(OrbitalCalculationError, "Validation error")
        ELSE IF \/ FLT(elements.eccentricity, Fin(0))
                \/ FGE(elements.eccentricity, Fin(10))
        THEN Raise(OrbitalCalculationError, "Validation error")
        ELSE IF \/ FLT(elements.inclination, Fin(0))
                \/ FGT(elements.inclination, Fin(1800))
        THEN Raise(OrbitalCalculationError, "Validation error")
        ELSE Return(TRUE)

\* the times argument of calculate_trajectory: a list, or None
TimesArg(list) == [given |-> TRUE, list |-> list]
NoTimes == [given |-> FALSE, list |-> <<>>]

\* calculate_trajectory filling every failed point with [0,0,0]
calculate_trajectory_zero_fill(orbital_elements, num_points, times, env) ==
    IF validate_orbital_elements(orbital_elements).status = "error"
    THEN Raise(OrbitalCalculationError, "Trajectory calculation failed")
    ELSE IF env.orbit_fail
    THEN Raise(OrbitalCalculationError, "Trajectory calculation failed")
    ELSE IF times.given /\ times.list = <<>>
    THEN Raise(OrbitalCalculationError, "Trajectory calculation failed")
    ELSE
    LET epoch_time == Time(orbital_elements.epoch.val)
        end_time == Time(orbital_elements.epoch.val + TWO_YEARS)
        generated == IF times.given
                     THEN Return(times.list)
                     ELSE create_time_range(epoch_time, end_time, num_points)
    IN  IF generated.status = "error"
        THEN Raise(OrbitalCalculationError, "Trajectory calculation failed")
        ELSE
        LET trajectory_times == generated.value
            n == Len(trajectory_times)
        IN  WithEffects(Return([i \in 1..n |->
                                  IF i \notin env.prop_fail
                                  THEN Propagated(trajectory_times[i])
                                  ELSE ZeroPoint]),
                        [grid |-> <<>>, propagations |-> n, lookups |-> 0])

\* env.orbit_fail: Orbit.from_classical raises;
\* env.prop_fail: the grid indices (from 1) at which orbit.propagate raises
calculate_trajectory(orbital_elements, num_points, times, env) ==
    IF validate_orbital_elements(orbital_elements).status = "error"
    THEN Raise(OrbitalCalculationError, "Trajectory calculation failed")
    ELSE IF env.orbit_fail
    THEN Raise(OrbitalCalculationError, "Trajectory calculation failed")
    ELSE IF times.given /\ times.list = <<>>
    THEN Raise(OrbitalCalculationError, "Trajectory calculation failed")
    ELSE
    LET epoch_time == Time(orbital_elements.epoch.val)
        end_time == Time(orbital_elements.epoch.val + TWO_YEARS)
        generated == IF times.given
                     THEN Return(times.list)
                     ELSE create_time_range(epoch_time, end_time, num_points)
    IN  IF generated.status = "error"
        THEN Raise(OrbitalCalculationError, "Trajectory calculation failed")
        ELSE
        LET trajectory_times == generated.value
            n == Len(trajectory_times)
            \* coordinates[i] is the entry appended by the i-th iteration
            coordinates[i \in 1..n] ==
                IF i \notin env.prop_fail
                THEN Propagated(trajectory_times[i])
                ELSE IF i > 1
                THEN coordinates[i - 1]
                ELSE ZeroPoint
        IN  WithEffects(Return([i \in 1..n |-> coordinates[i]]),
                        [grid |-> <<>>, propagations |-> n, lookups |-> 0])

\* the degradation test written >= 50
FailureRateAtLeast50(ephemeris_failures, len_times) ==
    ephemeris_failures * 100 >= 50 * len_times

\* (ephemeris_failures / len(times)) * 100 > 50; in binary64 the quotient of
\* two counts up to 10000 times 100 exceeds 50 exactly when 100 f > 50 n
FailureRateAbove50(ephemeris_failures, len_times) ==
    ephemeris_failures * 100 > 50 * len_times

\* env.ephem_fail: the grid indices at which the ephemeris lookup raises (or
\* answers a non-finite position); env.fallback_fail: those at which the
\* circular approximation raises
\* get_earth_trajectory carrying on with [1,0,0] after a failed fallback
get_earth_trajectory_carry_on(times, env) ==
    IF times = <<>>
    THEN Raise(ImpactCalculationError, "Empty times array")
    ELSE
    LET n == Len(times)
        ephemeris_failures == Cardinality({i \in env.ephem_fail : i <= n})
        coordinates == [i \in 1..n |->
                          IF i \notin env.ephem_fail
                          THEN Ephemeris(times[i])
                          ELSE IF n > 1 /\ i \notin env.fallback_fail
                          THEN Circular(times[i])
                          ELSE UnitXPoint]
    IN  IF /\ ephemeris_failures > 0
           /\ FailureRateAbove50(ephemeris_failures, n)
        THEN WithEffects(
                 Raise(ImpactCalculationError,
                       "Earth ephemeris data unavailable"),
                 [grid |-> <<>>, propagations |-> 0, lookups |-> n])
        ELSE WithEffects(
                 Return(coordinates),
                 [grid |-> <<>>, propagations |-> 0, lookups |-> n])

get_earth_trajectory(times, env) ==
    IF times = <<>>
    THEN Raise(ImpactCalculationError, "Empty times array")
    ELSE
    LET n == Len(times)
        both_fail == {i \in env.ephem_fail \cap env.fallback_fail :
                        i <= n /\ n > 1}
        first_both == CHOOSE i \in both_fail :
                        \A j \in both_fail : i <= j
        ephemeris_failures == Cardinality({i \in env.ephem_fail : i <= n})
        coordinates == [i \in 1..n |->
                          IF i \notin env.ephem_fail
                          THEN Ephemeris(times[i])
                          ELSE IF n > 1
                          THEN Circular(times[i])
                          ELSE UnitXPoint]
    IN  IF both_fail # {}
        THEN WithEffects(
                 Raise(ImpactCalculationError,
                       "Both ephemeris and fallback calculations failed"),
                 [grid |-> <<>>, propagations |-> 0, lookups |-> first_both])
        ELSE IF /\ ephemeris_failures > 0
                /\ FailureRateAbove50(ephemeris_failures, n)
        THEN WithEffects(
                 Raise(ImpactCalculationError,
                       "Earth ephemeris data unavailable"),
                 [grid |-> <<>>, propagations |-> 0, lookups |-> n])
        ELSE WithEffects(
                 Return(coordinates),
                 [grid |-> <<>>, propagations |-> 0, lookups |-> n])

\* the epoch window test rejecting the two bounds themselves
epoch_out_of_range_open(epoch) ==
    FLE(epoch, Fin(EPOCH_MIN)) \/ FGE(epoch, Fin(EPOCH_MAX))

\* the epoch window test of calculate_both_trajectories
epoch_out_of_range(epoch) ==
    FLT(epoch, Fin(EPOCH_MIN)) \/ FGT(epoch, Fin(EPOCH_MAX))

\* the two trajectories over separately cut time arrays, with no closing
\* length checks
unsynchronized_paths(orbital_elements, num_points, shared_times, env) ==
    LET asteroid == calculate_trajectory(orbital_elements, num_points,
                                         TimesArg(shared_times), env)
        earth == get_earth_trajectory(
                     SubSeq(shared_times, 1, Len(shared_times) - 1), env)
        after_asteroid == [grid |-> shared_times,
                           propagations |-> asteroid.effects.propagations,
                           lookups |-> 0]
        after_earth == [grid |-> shared_times,
                        propagations |-> asteroid.effects.propagations,
                        lookups |-> earth.effects.lookups]
    IN  IF asteroid.status = "error"
        THEN WithEffects(
                 Raise(ImpactCalculationError,
                       "Asteroid trajectory calculation failed"),
                 after_asteroid)
        ELSE IF earth.status = "error"
        THEN WithEffects(earth, after_earth)
        ELSE WithEffects(
                 Return([asteroid_path |-> asteroid.value,
                         earth_path |-> earth.value]),
                 after_earth)

\* both trajectories over the one shared grid, and the closing length checks
synchronized_paths(orbital_elements, num_points, shared_times, env) ==
    LET asteroid == calculate_trajectory(orbital_elements, num_points,
                                         TimesArg(shared_times), env)
        earth == get_earth_trajectory(shared_times, env)
        after_asteroid == [grid |-> shared_times,
                           propagations |-> asteroid.effects.propagations,
                           lookups |-> 0]
        after_earth == [grid |-> shared_times,
                        propagations |-> asteroid.effects.propagations,
                        lookups |-> earth.effects.lookups]
    IN  IF asteroid.status = "error"
        THEN WithEffects(
                 Raise(ImpactCalculationError,
                       "Asteroid trajectory calculation failed"),
                 after_asteroid)
        ELSE IF earth.status = "error"
        THEN WithEffects(earth, after_earth)
        ELSE IF Len(asteroid.value) # Len(earth.value)
        THEN WithEffects(
                 Raise(ImpactCalculationError,
                       "Trajectory synchronization failed"),
                 after_earth)
        ELSE IF Len(asteroid.value) # num_points.val
        THEN WithEffects(
                 Raise(ImpactCalculationError,
                       "Trajectory point count mismatch"),
                 after_earth)
        ELSE WithEffects(
                 Return([asteroid_path |-> asteroid.value,
                         earth_path |-> earth.value]),
                 after_earth)

\* calculate_both_trajectories starting its grid at the time of the call
calculate_both_trajectories_from_now(orbital_elements, num_points, env) ==
    IF ~orbital_elements.is_oe
    THEN Raise(ImpactCalculationError, "Invalid orbital_elements type")
    ELSE IF ~num_points.is_int \/ num_points.val <= 0
    THEN Raise(ImpactCalculationError, "Invalid num_points")
    ELSE IF ~isfinite(orbital_elements.epoch)
    THEN Raise(ImpactCalculationError, "Invalid epoch value")
    ELSE IF epoch_out_of_range(orbital_elements.epoch)
    THEN Raise(ImpactCalculationError, "Epoch is outside reasonable range")
    ELSE
    LET epoch_time == Time(orbital_elements.epoch.val + clock)
        end_time == Time(orbital_elements.epoch.val + clock + TWO_YEARS)
        created == create_time_range(epoch_time, end_time, num_points)
    IN  IF created.status = "error"
        THEN created
        ELSE IF Len(created.value) # num_points.val
        THEN Raise(ImpactCalculationError,
                   "Shared time array length mismatch")
        ELSE synchronized_paths(orbital_elements, num_points,
                                created.value, env)

calculate_both_trajectories(orbital_elements, num_points, env) ==
    IF ~orbital_elements.is_oe
    THEN Raise(ImpactCalculationError, "Invalid orbital_elements type")
    ELSE IF ~num_points.is_int \/ num_points.val <= 0
    THEN Raise(ImpactCalculationError, "Invalid num_points")
    ELSE IF ~isfinite(orbital_elements.epoch)
    THEN Raise(ImpactCalculationError, "Invalid epoch value")
    ELSE IF epoch_out_of_range(orbital_elements.epoch)
    THEN Raise(ImpactCalculationError, "Epoch is outside reasonable range")
    ELSE
    LET epoch_time == Time(orbital_elements.epoch.val)
        end_time == Time(orbital_elements.epoch.val + TWO_YEARS)
        created == create_time_range(epoch_time, end_time, num_points)
    IN  IF created.status = "error"
        THEN created
        ELSE IF Len(created.value) # num_points.val
        THEN Raise(ImpactCalculationError,
                   "Shared time array length mismatch")
        ELSE synchronized_paths(orbital_elements, num_points,
                                created.value, env)

(***************************************************************************)
(* Impact physics.  The magnitudes (up to about 1e32 J) are outside the    *)
(* integers of the model: a computed quantity is held by its sign, Fin(1)  *)
(* standing for a positive finite float.  diameter, velocity and the       *)
(* densities are in km, km/s and kg/m3.                                    *)
(***************************************************************************)
MAX_DIAMETER_KM == 1000
MAX_VELOCITY_KPS == 100
MAX_DENSITY_KG_M3 == 20000

\* the sign of a finite float
Sign(x) == IF x.val > 0 THEN 1 ELSE IF x.val < 0 THEN -1 ELSE 0

\* the product of finite floats, by sign
SignProduct(x, y) == Fin(Sign(x) * Sign(y))

\* returns "" when the parameters are accepted, else the error message
\* validate_impact_parameters with the diameter cap written >= instead of >
validate_impact_parameters_cap_exclusive(diameter_km, velocity_kps, density_kg_m3) ==
    IF ~IsNumber(diameter_km) \/ ~isfinite(diameter_km)
    THEN "Invalid diameter"
    ELSE IF FLE(diameter_km, Fin(0))
    THEN "Diameter must be positive"
    ELSE IF FGE(diameter_km, Fin(MAX_DIAMETER_KM))
    THEN "Diameter too large"
    ELSE IF ~IsNumber(velocity_kps) \/ ~isfinite(velocity_kps)
    THEN "Invalid velocity"
    ELSE IF FLE(velocity_kps, Fin(0))
    THEN "Velocity must be positive"
    ELSE IF FGT(velocity_kps, Fin(MAX_VELOCITY_KPS))
    THEN "Velocity too high"
    ELSE IF ~IsNumber(density_kg_m3) \/ ~isfinite(density_kg_m3)
    THEN "Invalid density"
    ELSE IF FLE(density_kg_m3, Fin(0))
    THEN "Density must be positive"
    ELSE IF FGT(density_kg_m3, Fin(MAX_DENSITY_KG_M3))
    THEN "Density too high"
    ELSE ""

validate_impact_parameters(diameter_km, velocity_kps, density_kg_m3) ==
    IF ~IsNumber(diameter_km) \/ ~isfinite(diameter_km)
    THEN "Invalid diameter"
    ELSE IF FLE(diameter_km, Fin(0))
    THEN "Diameter must be positive"
    ELSE IF FGT(diameter_km, Fin(MAX_DIAMETER_KM))
    THEN "Diameter too large"
    ELSE IF ~IsNumber(velocity_kps) \/ ~isfinite(velocity_kps)
    THEN "Invalid velocity"
    ELSE IF FLE(velocity_kps, Fin(0))
    THEN "Velocity must be positive"
    ELSE IF FGT(velocity_kps, Fin(MAX_VELOCITY_KPS))
    THEN "Velocity too high"
    ELSE IF ~IsNumber(density_kg_m3) \/ ~isfinite(density_kg_m3)
    THEN "Invalid density"
    ELSE IF FLE(density_kg_m3, Fin(0))
    THEN "Density must be positive"
    ELSE IF FGT(density_kg_m3, Fin(MAX_DENSITY_KG_M3))
    THEN "Density too high"
    ELSE ""

\* density * (4/3) * pi * (diameter_km * 1000 / 2) ** 3
calculate_mass(diameter_km, density_kg_m3) ==
    LET invalid == validate_impact_parameters(diameter_km, Fin(1),
                                              density_kg_m3)
    IN  IF invalid # ""
        THEN Raise(ImpactCalculationError, invalid)
        ELSE Return(SignProduct(density_kg_m3, diameter_km))

\* 0.5 * mass_kg * (velocity_kps * 1000) ** 2
calculate_kinetic_energy(mass_kg, velocity_kps) ==
    IF ~IsNumber(mass_kg) \/ ~isfinite(mass_kg)
    THEN Raise(ImpactCalculationError, "Invalid mass")
    ELSE IF FLE(mass_kg, Fin(0))
    THEN Raise(ImpactCalculationError, "Mass must be positive")
    ELSE IF ~IsNumber(velocity_kps) \/ ~isfinite(velocity_kps)
    THEN Raise(ImpactCalculationError, "Invalid velocity")
    ELSE IF FLE(velocity_kps, Fin(0))
    THEN Raise(ImpactCalculationError, "Velocity must be positive")
    ELSE Return(SignProduct(mass_kg, SignProduct(velocity_kps, velocity_kps)))

\* 0.25 * (kinetic_energy_j / (target_density_kg_m3 * 9.81)) ** (1 / 3.4)
calculate_crater_diameter(kinetic_energy_j, target_density_kg_m3) ==
    IF ~IsNumber(kinetic_energy_j) \/ ~isfinite(kinetic_energy_j)
    THEN Raise(ImpactCalculationError, "Invalid kinetic energy")
    ELSE IF FLE(kinetic_energy_j, Fin(0))
    THEN Raise(ImpactCalculationError, "Kinetic energy must be positive")
    ELSE IF ~IsNumber(target_density_kg_m3) \/ ~isfinite(target_density_kg_m3)
    THEN Raise(ImpactCalculationError, "Invalid target density")
    ELSE IF FLE(target_density_kg_m3, Fin(0))
    THEN Raise(ImpactCalculationError, "Target density must be positive")
    ELSE Return(SignProduct(kinetic_energy_j, target_density_kg_m3))

calculate_impact_effects(diameter_km, velocity_kps, asteroid_density_kg_m3, target_density_kg_m3) ==
    LET invalid == validate_impact_parameters(diameter_km, velocity_kps,
                                              asteroid_density_kg_m3)
        mass_kg == calculate_mass(diameter_km, asteroid_density_kg_m3)
        kinetic_energy_j == calculate_kinetic_energy(mass_kg.value,
                                                     velocity_kps)
        crater_diameter_m == calculate_crater_diameter(kinetic_energy_j.value,
                                                       target_density_kg_m3)
    IN  IF invalid # ""
        THEN Raise(ImpactCalculationError, invalid)
        ELSE IF ~IsNumber(target_density_kg_m3)
                \/ ~isfinite(target_density_kg_m3)
        THEN Raise(ImpactCalculationError, "Invalid target density")
        ELSE IF FLE(target_density_kg_m3, Fin(0))
        THEN Raise(ImpactCalculationError, "Target density must be positive")
        ELSE IF mass_kg.status = "error"
        THEN mass_kg
        ELSE IF kinetic_energy_j.status = "error"
        THEN kinetic_energy_j
        ELSE IF crater_diameter_m.status = "error"
        THEN crater_diameter_m
        ELSE Return([crater_diameter_meters |-> crater_diameter_m.value,
                     impact_energy_joules |-> kinetic_energy_j.value,
                     mass_kg |-> mass_kg.value])

(***************************************************************************)
(* error_handlers.py: the retry decorator.  The decorated function is the  *)
(* sequence func of the outcomes of its successive invocations.            *)
(***************************************************************************)
RetryableError == "RetryableError"
NonRetryableError == "NonRetryableError"
RequestException == "RequestException"
\* an exception of another class (all classes derive from Exception)
ValueError == "ValueError"
TypeError == "TypeError"

\* isinstance(e, classes) for an exception e of class exc
IsInstance(exc, classes) == exc \in classes \/ "Exception" \in classes

\* seconds slept before the given attempt: delay, delay * backoff, ...
RECURSIVE SleptBefore(_, _, _)
SleptBefore(attempt, delay, backoff) ==
    IF attempt = 0 THEN 0
    ELSE delay + SleptBefore(attempt - 1, delay * backoff, backoff)

\* retry_on_failure giving up one attempt early
\* retry_on_failure retrying a NonRetryableError like any other exception
retry_on_failure_retry_all(max_attempts, delay, backoff, exceptions, func) ==
    LET wrapper[attempt \in 0..(max_attempts - 1)] ==
            LET outcome == func[attempt + 1]
                done == WithEffects(outcome,
                            [calls |-> attempt + 1,
                             slept |-> SleptBefore(attempt, delay, backoff)])
            IN  IF outcome.status = "ok" THEN done
                ELSE IF ~IsInstance(outcome.exc, exceptions) THEN done
                ELSE IF attempt = max_attempts - 1 THEN done
                ELSE wrapper[attempt + 1]
    IN  IF max_attempts <= 0
        THEN WithEffects(Raise(TypeError, "exceptions must derive from BaseException"),
                         [calls |-> 0, slept |-> 0])
        ELSE wrapper[0]

retry_on_failure_one_short(max_attempts, delay, backoff, exceptions, func) ==
    LET wrapper[attempt \in 0..(max_attempts - 1)] ==
            LET outcome == func[attempt + 1]
                done == WithEffects(outcome,
                            [calls |-> attempt + 1,
                             slept |-> SleptBefore(attempt, delay, backoff)])
            IN  IF outcome.status = "ok" THEN done
                ELSE IF ~IsInstance(outcome.exc, exceptions) THEN done
                ELSE IF attempt >= max_attempts - 2 THEN done
                ELSE IF outcome.exc = NonRetryableError THEN done
                ELSE wrapper[attempt + 1]
    IN  IF max_attempts <= 0
        THEN WithEffects(Raise(TypeError, "exceptions must derive from BaseException"),
                         [calls |-> 0, slept |-> 0])
        ELSE wrapper[0]

\* the wrapper of retry_on_failure(max_attempts, delay, backoff, exceptions)
\* applied to func; effects are the number of invocations of func and the
\* seconds slept
retry_on_failure(max_attempts, delay, backoff, exceptions, func) ==
    LET wrapper[attempt \in 0..(max_attempts - 1)] ==
            LET outcome == func[attempt + 1]
                done == WithEffects(outcome,
                            [calls |-> attempt + 1,
                             slept |-> SleptBefore(attempt, delay, backoff)])
            IN  IF outcome.status = "ok" THEN done
                ELSE IF ~IsInstance(outcome.exc, exceptions) THEN done
                ELSE IF attempt = max_attempts - 1 THEN done
                ELSE IF outcome.exc = NonRetryableError THEN done
                ELSE wrapper[attempt + 1]
    IN  IF max_attempts <= 0
        THEN WithEffects(Raise(TypeError, "exceptions must derive from BaseException"),
                         [calls |-> 0, slept |-> 0])
        ELSE wrapper[0]

(***************************************************************************)
(* error_handlers.py: the circuit breaker.  The wrapped call is given by   *)
(* its outcome and by the seconds it slept.                                *)
(***************************************************************************)
None == -1

\* CircuitBreaker.__init__
CircuitBreaker(failure_threshold, recovery_timeout) ==
    [failure_threshold |-> failure_threshold,
     recovery_timeout |-> recovery_timeout,
     failure_count |-> 0, last_failure_time |-> None, state |-> "CLOSED"]

should_attempt_reset(self, now) ==
    /\ self.last_failure_time # None
    /\ now - self.last_failure_time >= self.recovery_timeout

\* variant: a success resets the count and leaves the state alone
on_success_keeps_state(self) == [self EXCEPT !.failure_count = 0]

\* variant: a success closes the breaker and leaves the count alone
on_success_keeps_count(self) == [self EXCEPT !.state = "CLOSED"]

on_success(self) == [self EXCEPT !.failure_count = 0, !.state = "CLOSED"]

\* variant: the breaker opens one failure after the threshold
on_failure_opens_late(self, now) ==
    LET counted == [self EXCEPT !.failure_count = @ + 1,
                                !.last_failure_time = now]
    IN  IF counted.failure_count > counted.failure_threshold
        THEN [counted EXCEPT !.state = "OPEN"]
        ELSE counted

on_failure(self, now) ==
    LET counted == [self EXCEPT !.failure_count = @ + 1,
                                !.last_failure_time = now]
    IN  IF counted.failure_count >= counted.failure_threshold
        THEN [counted EXCEPT !.state = "OPEN"]
        ELSE counted

\* CircuitBreaker.__call__'s wrapper around a call with outcome inner, made
\* at time now: the outcome, the breaker and the time afterwards
circuit_breaker_call(self, now, inner) ==
    IF self.state = "OPEN" /\ ~should_attempt_reset(self, now)
    THEN [outcome |-> WithEffects(
                          Raise("Exception", "Circuit breaker is OPEN"),
                          [calls |-> 0, slept |-> 0]),
          breaker |-> self, clock |-> now]
    ELSE LET entered == IF self.state = "OPEN"
                        THEN [self EXCEPT !.state = "HALF_OPEN"]
                        ELSE self
             returned == now + inner.effects.slept
         IN  IF inner.status = "ok"
             THEN [outcome |-> inner, breaker |-> on_success(entered),
                   clock |-> returned]
             ELSE [outcome |-> inner, breaker |-> on_failure(entered, returned),
                   clock |-> returned]

(***************************************************************************)
(* nasa_client.py.  The remote database answers each HTTP request with a   *)
(* record [kind, data]: kind is "ok" (data is the response), an HTTP error *)
(* status, or a fault of the connection or of the body.                    *)
(***************************************************************************)
NASAAPIError == "NASAAPIError"

\* the body of NASAClient.fetch_asteroid_data for one answer of the remote
\* database; an exception raised inside its try block is caught by its
\* last handler and raised again as RetryableError
fetch_asteroid_data_body(asteroid_name, answer) ==
    IF asteroid_name = ""
    THEN Raise(RetryableError,
               "An unexpected error occurred: Invalid asteroid name")
    ELSE IF answer.kind = "http_404"
    THEN Raise(NonRetryableError, "not found")
    ELSE IF answer.kind = "http_400"
    THEN Raise(NonRetryableError, "Invalid request")
    ELSE IF answer.kind = "http_500"
    THEN Raise(RetryableError, "HTTP error")
    ELSE IF answer.kind = "connection_error"
    THEN Raise(RetryableError, "Request failed")
    ELSE IF answer.kind = "bad_json"
    THEN Raise(RetryableError,
               "An unexpected error occurred: Invalid JSON response")
    ELSE IF answer.kind = "no_object"
    THEN Raise(RetryableError,
               "An unexpected error occurred: Invalid response structure")
    ELSE IF answer.kind = "no_fullname"
    THEN Raise(RetryableError, "An unexpected error occurred: not found")
    ELSE Return(answer.data)

\* NASAClient.fetch_asteroid_data as decorated: the circuit breaker around
\* the retries around the body; answers[k] answers the k-th request
fetch_asteroid_data(asteroid_name, answers, breaker, now) ==
    circuit_breaker_call(
        breaker, now,
        retry_on_failure(3, 1, 2, {RetryableError, RequestException},
                         [k \in 1..3 |->
                            fetch_asteroid_data_body(asteroid_name, answers[k])]))

\* the except clause of get_asteroid_data
as_nasa_api_error(fetched) ==
    IF /\ fetched.outcome.status = "error"
       /\ fetched.outcome.exc \in {RetryableError, NonRetryableError}
    THEN [fetched EXCEPT !.outcome.exc = NASAAPIError]
    ELSE fetched

get_asteroid_data(asteroid_name, answers, breaker, now) ==
    as_nasa_api_error(fetch_asteroid_data(asteroid_name, answers, breaker, now))

(***************************************************************************)
(* orbital_calculator.py: the deflected trajectory.  remote holds the      *)
(* answers of the database, whether building or deflecting the orbit fails *)
(* and the samples at which propagation fails.                             *)
(***************************************************************************)
\* the indices 1..n outside the set failed, in order
RECURSIVE Surviving(_, _)
Surviving(n, failed) ==
    IF n = 0 THEN <<>>
    ELSE IF n \in failed THEN Surviving(n - 1, failed)
    ELSE Append(Surviving(n - 1, failed), n)

\* the deflected path and the result built from it: steps 3 to 5 of
\* calculate_deflected_trajectory for num_points samples from deflected_epoch
deflected_result(asteroid_name, delta_v_mps, days_from_epoch, num_points, remote, deflected_epoch) ==
    LET \* range(num_points) is empty for num_points <= 0
        n == IF num_points.val > 0 THEN num_points.val ELSE 0
        \* 365 * u.day / num_points, in tenths of a day
        step == FloatDiv(3650, n)
        kept == Surviving(n, remote.prop_fail)
        deflected_path == [k \in 1..Len(kept) |->
                             Propagated(TimeAdd(deflected_epoch, kept[k] - 1, step))]
    IN  [success |-> TRUE, asteroid_name |-> asteroid_name,
         delta_v_applied_mps |-> delta_v_mps,
         deflection_time_days |-> days_from_epoch,
         deflected_path |-> deflected_path,
         path_points |-> Len(deflected_path)]

DeflectionFailed ==
    Raise(OrbitalCalculationError, "Failed to calculate deflected trajectory")

\* calculate_deflected_trajectory once the elements were extracted, failing
\* at the first failed sample
deflect_extracted_abort(asteroid_name, delta_v_mps, days_from_epoch, num_points, remote, extracted) ==
    IF extracted.status = "error" THEN DeflectionFailed
    ELSE IF remote.orbit_fail THEN DeflectionFailed
    ELSE IF ~num_points.is_int THEN DeflectionFailed
    ELSE IF remote.prop_fail \cap (1..num_points.val) # {} THEN DeflectionFailed
    ELSE Return(deflected_result(
                    asteroid_name, delta_v_mps, days_from_epoch, num_points,
                    remote, Time(extracted.value.epoch.val + days_from_epoch)))

\* calculate_deflected_trajectory once the elements were extracted
deflect_extracted(asteroid_name, delta_v_mps, days_from_epoch, num_points, remote, extracted) ==
    IF extracted.status = "error" THEN DeflectionFailed
    ELSE IF remote.orbit_fail THEN DeflectionFailed
    ELSE IF ~num_points.is_int THEN DeflectionFailed
    ELSE Return(deflected_result(
                    asteroid_name, delta_v_mps, days_from_epoch, num_points,
                    remote, Time(extracted.value.epoch.val + days_from_epoch)))

\* calculate_deflected_trajectory once the asteroid was asked for
deflect_fetched(asteroid_name, delta_v_mps, days_from_epoch, num_points, remote, fetched) ==
    [fetched EXCEPT !.outcome =
        IF fetched.outcome.status = "error" THEN DeflectionFailed
        ELSE deflect_extracted(
                 asteroid_name, delta_v_mps, days_from_epoch, num_points,
                 remote, extract_orbital_elements(fetched.outcome.value))]

\* the outcome, the circuit breaker and the time after the call;
\* days_from_epoch is in tenths of a day, as the epoch is
calculate_deflected_trajectory(asteroid_name, delta_v_mps, days_from_epoch, num_points, remote, breaker, now) ==
    deflect_fetched(asteroid_name, delta_v_mps, days_from_epoch, num_points,
                    remote,
                    get_asteroid_data(asteroid_name, remote.answers, breaker,
                                      now))

(***************************************************************************)
(* Inputs of the invocations.                                              *)
(***************************************************************************)
\* Apophis-like elements (a=0.9, e=0.2, i=3.3, om=204.4, w=126.4, ma=268.7)
SampleElements(epoch) ==
    [is_oe |-> TRUE,
     semi_major_axis |-> Fin(9), eccentricity |-> Fin(2),
     inclination |-> Fin(33), longitude_ascending_node |-> Fin(2044),
     argument_periapsis |-> Fin(1264), mean_anomaly |-> Fin(2687),
     epoch |-> epoch]

\* the elements a caller may pass: valid ones, ones with a NaN semi-major
\* axis, and an object that is not an OrbitalElements
ElementsInputs(epoch) ==
    {SampleElements(epoch),
     [SampleElements(epoch) EXCEPT !.semi_major_axis = NaN],
     [SampleElements(epoch) EXCEPT !.is_oe = FALSE]}

EpochInputs ==
    {Fin(EPOCH_MIN - 1), Fin(EPOCH_MIN), Fin(24610005), Fin(EPOCH_MAX),
     Fin(EPOCH_MAX + 1), NaN}

SmallNumPoints == {IntArg(n) : n \in -1..MaxN} \cup {NonInt}
CapNumPoints == {IntArg(MAX_NUM_POINTS), IntArg(MAX_NUM_POINTS + 1)}

NoFailures ==
    [orbit_fail |-> FALSE, prop_fail |-> {}, ephem_fail |-> {},
     fallback_fail |-> {}]

\* answers of the providers: any pattern of failing propagations and
\* ephemeris lookups up to index MaxIdx, at most one failing fallback
EnvInputs ==
    {[orbit_fail |-> FALSE, prop_fail |-> pf, ephem_fail |-> ef,
      fallback_fail |-> ff] :
        pf \in SUBSET (1..MaxIdx), ef \in SUBSET (1..MaxIdx),
        ff \in {{}} \cup {{k} : k \in 1..MaxIdx}}
    \cup {[NoFailures EXCEPT !.orbit_fail = TRUE]}

\* a few answers of the providers, drawn with every argument
FewEnvInputs ==
    {NoFailures,
     [NoFailures EXCEPT !.prop_fail = {1}],
     [NoFailures EXCEPT !.prop_fail = {2}, !.ephem_fail = {1}],
     [NoFailures EXCEPT !.ephem_fail = 1..MaxIdx],
     [NoFailures EXCEPT !.orbit_fail = TRUE]}

\* every argument with a few answers of the providers (BothArgs), and valid
\* elements with every answer of the providers (BothArgsEveryEnv)
BothArgs ==
    {[orbital_elements |-> oe, num_points |-> np, env |-> env] :
        oe \in UNION {ElementsInputs(ep) : ep \in EpochInputs},
        np \in SmallNumPoints \cup CapNumPoints, env \in FewEnvInputs}

BothArgsEveryEnv ==
    {[orbital_elements |-> oe, num_points |-> np, env |-> env] :
        oe \in {SampleElements(Fin(EPOCH_MIN)), SampleElements(Fin(24610005))},
        np \in SmallNumPoints, env \in EnvInputs}

\* the grids handed to get_earth_trajectory: empty, one instant, or a grid
\* of create_time_range
GridOf(n) ==
    create_time_range(Time(24610005), Time(24610005 + TWO_YEARS),
                      IntArg(n)).value

EarthArgs ==
    {[times |-> times, env |-> env] :
        times \in {<<>>, <<Time(24610005)>>} \cup {GridOf(n) : n \in 2..MaxN},
        env \in EnvInputs}

\* answers of the propagator alone
PropEnvInputs ==
    {[NoFailures EXCEPT !.prop_fail = pf] : pf \in SUBSET (1..MaxIdx)}
    \cup {[NoFailures EXCEPT !.orbit_fail = TRUE]}

\* calculate_trajectory with a grid of the caller or with num_points
TrajectoryArgs ==
    {[orbital_elements |-> oe, num_points |-> np, times |-> times,
      env |-> env] :
        oe \in {SampleElements(Fin(24610005)),
                [SampleElements(Fin(24610005)) EXCEPT !.semi_major_axis = NaN]},
        np \in SmallNumPoints,
        times \in {NoTimes, TimesArg(<<>>), TimesArg(<<Time(24610005)>>)}
                  \cup {TimesArg(GridOf(n)) : n \in 2..MaxN},
        env \in PropEnvInputs}

\* the three parameters of validate_impact_parameters
ValidateArgs ==
    {[diameter_km |-> d, velocity_kps |-> v, density_kg_m3 |-> rho] :
        d \in {Fin(-1), Fin(0), Fin(1), Fin(MAX_DIAMETER_KM),
               Fin(MAX_DIAMETER_KM + 1), NaN, PosInf, NegInf, NotANumber},
        v \in {Fin(-20), Fin(0), Fin(20), Fin(MAX_VELOCITY_KPS),
               Fin(MAX_VELOCITY_KPS + 1), NaN, PosInf, NotANumber},
        rho \in {Fin(-3000), Fin(0), Fin(3000), Fin(MAX_DENSITY_KG_M3),
                 Fin(MAX_DENSITY_KG_M3 + 1), NaN, NegInf, NotANumber}}

\* the outcome of the k-th invocation of a decorated function
Succeeds(k) == Return(<<k>>)
Fails(exc, k) == WithDetail(Raise(exc, "failed"), <<k>>)

\* the decorated functions: every sequence of MaxN successes and failures
RetryFuncs ==
    {[k \in 1..MaxN |-> IF choice[k] = "ok" THEN Succeeds(k)
                         ELSE Fails(choice[k], k)] :
        choice \in [1..MaxN -> {"ok", RetryableError, NonRetryableError,
                                ValueError}]}

RetryArgs ==
    {[max_attempts |-> m, exceptions |-> ex, func |-> f] :
        m \in 0..MaxN,
        ex \in {{"Exception"}, {RetryableError},
                {RetryableError, RequestException}},
        f \in RetryFuncs}

JdInputs == {24610005, 24610005 + 1, 24610005 + TWO_YEARS}

GridArgs ==
    {[start_time |-> Time(s), end_time |-> Time(e), num_points |-> np] :
        s \in JdInputs, e \in JdInputs,
        np \in SmallNumPoints \cup CapNumPoints}

\* what an element entry of a record may be for a required name: no entry,
\* an entry without value, an unparsable value, or a parsed float
Absent == [slot |-> "absent", raw |-> Unparsable]
NoValue == [slot |-> "no_value", raw |-> Unparsable]
Bad == [slot |-> "entry", raw |-> Unparsable]
Val(x) == [slot |-> "entry", raw |-> Parsed(x)]

\* the entries (none or one) a choice makes for a name
Slot(name, choice) ==
    IF choice.slot = "absent" THEN <<>>
    ELSE IF choice.slot = "no_value" THEN <<EntryNoValue(name)>>
    ELSE <<Entry(name, choice.raw)>>

Record(epoch, entries) ==
    [has_orbit |-> TRUE, has_elements |-> TRUE, has_epoch |-> TRUE,
     epoch |-> epoch, elements |-> entries]

SampleEntries ==
    Slot("a", Val(Fin(9))) \o Slot("e", Val(Fin(2))) \o Slot("i", Val(Fin(33)))
    \o Slot("om", Val(Fin(2044))) \o Slot("w", Val(Fin(1264))) \o Slot("ma", Val(Fin(2687)))

\* records with a valid epoch and every combination of element entries
ElementRecords ==
    {Record(Parsed(Fin(24610005)),
            Slot("a", a) \o Slot("e", e) \o Slot("i", i)
            \o Slot("om", om) \o Slot("w", w) \o Slot("ma", ma)) :
        a \in {Absent, NoValue, Bad, Val(Fin(-1)), Val(Fin(0)), Val(Fin(9)),
               Val(NaN), Val(PosInf)},
        e \in {Absent, Val(Fin(-1)), Val(Fin(0)), Val(Fin(2)), Val(Fin(10)), Val(Fin(11)), Val(NaN)},
        i \in {Bad, Val(Fin(-1)), Val(Fin(0)), Val(Fin(1800)), Val(Fin(1801)), Val(NaN)},
        om \in {Absent, Val(Fin(-100)), Val(Fin(2044)), Val(Fin(3600)), Val(PosInf)},
        w \in {Bad, Val(Fin(1264))},
        ma \in {Absent, Val(Fin(2687)), Val(Fin(3700))}}

\* records with repeated, nameless and foreign entries
RepeatedEntryRecords ==
    {Record(Parsed(Fin(24610005)), first \o SampleEntries \o last) :
        first \in {<<>>, <<EntryNoName(Parsed(Fin(9)))>>,
                   <<Entry("q", Parsed(Fin(5)))>>,
                   <<Entry("a", Unparsable)>>},
        last \in {<<>>, <<Entry("a", Unparsable)>>, <<EntryNoValue("e")>>,
                  <<Entry("a", Parsed(Fin(0)))>>,
                  <<Entry("om", Parsed(Fin(-100)))>>,
                  <<Entry("om", Parsed(NegTiny))>>,
                  <<Entry("w", Parsed(Fin(-1264)))>>,
                  <<Entry("ma", Parsed(Fin(7200 + 2687)))>>}}

\* records with a missing section or another epoch
EpochRecords ==
    {Record(ep, entries) :
        ep \in {Unparsable, Parsed(NaN), Parsed(PosInf),
                Parsed(Fin(EPOCH_MIN - 1)), Parsed(Fin(EPOCH_MIN)),
                Parsed(Fin(EPOCH_MAX)), Parsed(Fin(EPOCH_MAX + 1))},
        entries \in {SampleEntries, Tail(SampleEntries)}}
    \cup {[Record(Parsed(Fin(24610005)), SampleEntries) EXCEPT ![f] = FALSE] :
            f \in {"has_orbit", "has_elements", "has_epoch"}}

ExtractArgs ==
    {[nasa_response |-> r] :
        r \in ElementRecords \cup RepeatedEntryRecords \cup EpochRecords}

\* answers of the remote database to one request
NoResponse == [Record(Unparsable, <<>>) EXCEPT !.has_orbit = FALSE]
GoodResponse == Record(Parsed(Fin(24610005)), SampleEntries)
\* a response without the semi-major axis
BadResponse == Record(Parsed(Fin(24610005)), Tail(SampleEntries))
Found(data) == [kind |-> "ok", data |-> data]
Answer(kind) == [kind |-> kind, data |-> NoResponse]

\* answers to the up to three requests of a fetch: the same answer to each,
\* or a server error followed by other answers
AnswersInputs ==
    {<<a, a, a>> :
        a \in {Found(GoodResponse), Found(BadResponse)}
              \cup {Answer(kind) :
                      kind \in {"http_404", "http_400", "http_500",
                                "connection_error", "bad_json", "no_object",
                                "no_fullname"}}}
    \cup {<<Answer("http_500"), Found(GoodResponse), Found(GoodResponse)>>,
          <<Answer("http_500"), Answer("http_500"), Found(GoodResponse)>>,
          <<Answer("http_500"), Answer("http_404"), Found(GoodResponse)>>}

DeflectedRemotes ==
    {[answers |-> an, orbit_fail |-> FALSE, prop_fail |-> pf] :
        an \in AnswersInputs, pf \in SUBSET (1..MaxIdx)}
    \cup {[answers |-> <<Found(GoodResponse), Found(GoodResponse),
                         Found(GoodResponse)>>,
           orbit_fail |-> TRUE, prop_fail |-> {}]}

DeflectedArgs ==
    {[asteroid_name |-> name, delta_v_mps |-> Fin(10), days_from_epoch |-> 100,
      num_points |-> np, remote |-> remote] :
        name \in {"Apophis", ""}, np \in SmallNumPoints,
        remote \in DeflectedRemotes}

\* largest number of entries of top_asteroids
MaxBatch == 4

\* names of the entries of top_asteroids, by position
BatchNames ==
    {<<"(2021 AB)", "2022 CD", "Apophis", "2024 GH", "2025 IJ">>,
     <<"2021 AB", "()", "Bennu", "2024 GH", "2025 IJ">>}

\* what happens to an entry: its trajectories are computed, or its fetch,
\* its extraction or its trajectory computation fails
ItemKinds == {"ok", "http_404", "http_500", "bad_elements", "traj_fail"}

ItemRemote(kind, wait) ==
    [answers |->
        IF kind \in {"ok", "traj_fail"}
        THEN <<Found(GoodResponse), Found(GoodResponse), Found(GoodResponse)>>
        ELSE IF kind = "bad_elements"
        THEN <<Found(BadResponse), Found(BadResponse), Found(BadResponse)>>
        ELSE <<Answer(kind), Answer(kind), Answer(kind)>>,
     env |-> IF kind = "traj_fail"
             THEN [NoFailures EXCEPT !.ephem_fail = {1}, !.fallback_fail = {1}]
             ELSE NoFailures,
     wait |-> wait]

BatchArgs ==
    {[top_asteroids |->
          [k \in 1..len |-> [name |-> names[k],
                             remote |-> ItemRemote(kinds[k], wait)]],
      guaranteed_remote |-> ItemRemote(g, wait)] :
        len \in {0, MaxBatch}, names \in BatchNames,
        kinds \in [1..MaxBatch -> ItemKinds], wait \in {0, 30},
        g \in {"ok", "http_404"}}

ImpactArgs ==
    {[diameter_km |-> d, velocity_kps |-> v, asteroid_density_kg_m3 |-> ad,
      target_density_kg_m3 |-> td] :
        d \in {Fin(-1), Fin(0), Fin(1), Fin(MAX_DIAMETER_KM),
               Fin(MAX_DIAMETER_KM + 1), NaN, PosInf, NotANumber},
        v \in {Fin(-20), Fin(0), Fin(20), Fin(MAX_VELOCITY_KPS),
               Fin(MAX_VELOCITY_KPS + 1), NaN},
        ad \in {Fin(0), Fin(3000), Fin(MAX_DENSITY_KG_M3),
                Fin(MAX_DENSITY_KG_M3 + 1), PosInf},
        td \in {Fin(-2500), Fin(0), Fin(2500), Fin(MAX_DENSITY_KG_M3),
                Fin(MAX_DENSITY_KG_M3 + 1), Fin(25000), NaN, PosInf,
                NotANumber}}

(***************************************************************************)
(* main.py: the batch of GET /api/asteroids/top-10-nearest.  The handler   *)
(* first builds top_asteroids (from the close-approach feed, or its fixed  *)
(* list when the feed fails); each entry carries the answers the providers *)
(* give while it is processed and the seconds that pass before its fetch.  *)
(***************************************************************************)
GUARANTEED == <<"Apophis", "Bennu", "Didymos", "Ryugu", "Eros">>
BATCH_NUM_POINTS == 365
MAX_TRAJECTORIES == 10
MIN_TRAJECTORIES == 5

\* asteroid_name_raw.replace("(", "").replace(")", "").strip()
Sanitize(name) ==
    IF name = "(2021 AB)" THEN "2021 AB"
    ELSE IF name = "()" THEN ""
    ELSE name

\* calculate_both_trajectories(orbital_elements, num_points=365), tabulated
\* over the elements and the providers' answers met in a batch
BatchTrajectories ==
    [orbital_elements \in {extract_orbital_elements(GoodResponse).value},
     env \in {ItemRemote(kind, 0).env : kind \in ItemKinds} |->
        calculate_both_trajectories(orbital_elements,
                                    IntArg(BATCH_NUM_POINTS), env)]

\* the trajectory_data stored for a name: the two paths, by their lengths
TrajectoryData(computed) ==
    [asteroid_path |-> Len(computed.value.asteroid_path),
     earth_path |-> Len(computed.value.earth_path)]

\* the loop's state after an entry whose try block raised
skipped(state, fetched) ==
    [state EXCEPT !.breaker = fetched.breaker, !.clock = fetched.clock]

\* the try block once the trajectories were computed
store_computed(state, asteroid_name, fetched, computed) ==
    IF computed.status = "error" THEN skipped(state, fetched)
    ELSE [trajectories |->
              (asteroid_name :> TrajectoryData(computed)) @@ state.trajectories,
          successful_calculations |-> state.successful_calculations + 1,
          breaker |-> fetched.breaker,
          clock |-> fetched.clock]

\* the try block once the elements were extracted
compute_extracted(state, asteroid_name, remote, fetched, extracted) ==
    IF extracted.status = "error" THEN skipped(state, fetched)
    ELSE store_computed(state, asteroid_name, fetched,
                        BatchTrajectories[extracted.value, remote.env])

\* the try block once the asteroid was asked for
extract_fetched(state, asteroid_name, remote, fetched) ==
    IF fetched.outcome.status = "error" THEN skipped(state, fetched)
    ELSE compute_extracted(state, asteroid_name, remote, fetched,
                           extract_orbital_elements(fetched.outcome.value))

\* the try block of the loop body: fetch, extract, compute, store
try_asteroid(state, asteroid_name, remote) ==
    extract_fetched(state, asteroid_name, remote,
                    get_asteroid_data(asteroid_name, remote.answers,
                                      state.breaker, state.clock + remote.wait))

\* the iterations k.. of the loop over top_asteroids
RECURSIVE top_asteroids_loop(_, _, _)
top_asteroids_loop(top_asteroids, k, state) ==
    IF k > Len(top_asteroids) THEN state
    ELSE IF state.successful_calculations >= MAX_TRAJECTORIES THEN state
    ELSE top_asteroids_loop(
             top_asteroids, k + 1,
             IF Sanitize(top_asteroids[k].name) = "" THEN state
             ELSE try_asteroid(state, Sanitize(top_asteroids[k].name),
                               top_asteroids[k].remote))

\* the iterations k.. of the loop over the guaranteed asteroids
RECURSIVE guaranteed_asteroids_loop(_, _, _)
guaranteed_asteroids_loop(k, remote, state) ==
    IF k > Len(GUARANTEED) THEN state
    ELSE guaranteed_asteroids_loop(
             k + 1, remote,
             IF /\ GUARANTEED[k] \notin DOMAIN state.trajectories
                /\ state.successful_calculations < MAX_TRAJECTORIES
             THEN try_asteroid(state, GUARANTEED[k], remote)
             ELSE state)

\* the guaranteed asteroids are added when fewer than five were computed
add_guaranteed(guaranteed_remote, state) ==
    IF state.successful_calculations < MIN_TRAJECTORIES
    THEN guaranteed_asteroids_loop(1, guaranteed_remote, state)
    ELSE state

\* the handler's return
returned_trajectories(state) ==
    [outcome |-> Return(state.trajectories), breaker |-> state.breaker,
     clock |-> state.clock]

\* the outcome, the circuit breaker and the time after the handler
get_top_10_nearest(top_asteroids, guaranteed_remote, breaker, now) ==
    returned_trajectories(
        add_guaranteed(
            guaranteed_remote,
            top_asteroids_loop(
                top_asteroids, 1,
                [trajectories |-> <<>>, successful_calculations |-> 0,
                 breaker |-> breaker, clock |-> now])))

(***************************************************************************)
(* error_handlers.py: exceptions to HTTP errors.  An exception is the      *)
(* raised outcome: its class, its message and, for an HTTPError or an      *)
(* HTTPException, the status code in detail.                               *)
(***************************************************************************)
HTTPException == "HTTPException"
HTTPError == "HTTPError"
Timeout == "Timeout"
ConnectionError == "ConnectionError"
AttributeError == "AttributeError"
UnboundLocalError == "UnboundLocalError"

\* the phrases map_error_to_http_status looks for that str(error).lower()
\* contains
PhrasesIn(msg) ==
    CASE msg = "not found" -> {"not found"}
      [] msg = "Invalid request" -> {"invalid request", "invalid"}
      [] msg = "Invalid JSON response" -> {"invalid json", "invalid"}
      [] msg = "Validation failed" -> {"validation"}
      [] msg = "An unexpected error occurred: not found" -> {"not found"}
      [] msg = "An unexpected error occurred: Invalid JSON response" ->
             {"invalid json", "invalid"}
      [] msg \in {"An unexpected error occurred: Invalid asteroid name",
                  "An unexpected error occurred: Invalid response structure"} ->
             {"invalid"}
      [] OTHER -> {}

\* the (status_code, message) returned; error_str is assigned for a
\* NonRetryableError only, and reading it unassigned raises
map_error_to_http_status(error) ==
    IF error.exc = NonRetryableError /\ "not found" \in PhrasesIn(error.msg)
    THEN Return(<<404, "Asteroid not found in NASA database">>)
    ELSE IF /\ error.exc = NonRetryableError
            /\ "invalid request" \in PhrasesIn(error.msg)
    THEN Return(<<400, "Invalid request to NASA API">>)
    ELSE IF /\ error.exc = NonRetryableError
            /\ "invalid json" \in PhrasesIn(error.msg)
    THEN Return(<<502, "Received an invalid response from NASA API">>)
    ELSE IF error.exc = HTTPError /\ error.detail = <<404>>
    THEN Return(<<404, "Asteroid not found in NASA database">>)
    ELSE IF error.exc = HTTPError /\ error.detail = <<429>>
    THEN Return(<<429, "NASA API rate limit exceeded">>)
    ELSE IF error.exc = Timeout
    THEN Return(<<504, "Request timeout while fetching data from NASA API">>)
    ELSE IF error.exc = ConnectionError
    THEN Return(<<503, "Unable to connect to NASA API">>)
    ELSE IF error.exc # NonRetryableError
    THEN Raise(UnboundLocalError, "error_str")
    ELSE IF \/ "validation" \in PhrasesIn(error.msg)
            \/ "invalid" \in PhrasesIn(error.msg)
    THEN Return(<<400, "Invalid input parameters provided">>)
    ELSE Return(<<500, "An unexpected error occurred">>)

\* raise HTTPException(status_code, detail=create_error_response(...)), or
\* the exception raised while mapping
raise_mapped(mapped) ==
    IF mapped.status = "error" THEN mapped
    ELSE WithDetail(Raise(HTTPException, mapped.value[2]), <<mapped.value[1]>>)

\* the wrapper of handle_api_errors around an endpoint with this outcome
handle_api_errors(outcome) ==
    IF outcome.status # "error" THEN outcome
    ELSE IF outcome.exc = HTTPException THEN outcome
    ELSE raise_mapped(map_error_to_http_status(outcome))

(***************************************************************************)
(* main.py: GET /api/trajectory/{asteroid_name}.                           *)
(***************************************************************************)
\* return JSONResponse(status_code=status_code, content=...)
JSONResponse(status_code) == WithDetail(Return(<<>>), <<status_code>>)

\* the except clauses of get_trajectory around its try block: the clauses
\* for NASAAPIError and OrbitalCalculationError read e.detail and
\* e.status_code, which these classes do not have
trajectory_except(tried) ==
    IF tried.status # "error" THEN tried
    ELSE IF tried.exc \in {NASAAPIError, OrbitalCalculationError}
    THEN Raise(AttributeError, "detail")
    ELSE JSONResponse(500)

\* the try block once the trajectories were computed
trajectory_computed(computed) ==
    IF computed.status = "error" THEN computed
    ELSE Return(TrajectoryData(computed))

\* the try block once the elements were extracted
trajectory_extracted(remote, extracted) ==
    IF extracted.status = "error" THEN extracted
    ELSE trajectory_computed(BatchTrajectories[extracted.value, remote.env])

\* the try block once the asteroid was asked for
trajectory_fetched(remote, fetched) ==
    IF fetched.status = "error" THEN fetched
    ELSE trajectory_extracted(remote, extract_orbital_elements(fetched.value))

\* the decorated endpoint once the asteroid was asked for
trajectory_endpoint(remote, fetched) ==
    [fetched EXCEPT !.outcome =
        handle_api_errors(
            trajectory_except(trajectory_fetched(remote, fetched.outcome)))]

\* the outcome of the decorated endpoint, the circuit breaker and the time
\* after the request
get_trajectory(heavy_libs_available, asteroid_name, remote, breaker, now) ==
    IF ~heavy_libs_available
    THEN [outcome |->
              handle_api_errors(
                  WithDetail(Raise(HTTPException,
                                   "Scientific libraries unavailable"),
                             <<503>>)),
          breaker |-> breaker, clock |-> now]
    ELSE trajectory_endpoint(
             remote,
             get_asteroid_data(asteroid_name, remote.answers, breaker, now))

\* the exceptions and returns of an endpoint under handle_api_errors
Messages ==
    {"not found", "Invalid request", "Invalid JSON response",
     "Validation failed", "failed"}

ErrorArgs ==
    {[outcome |-> o] :
        o \in {Return(<<>>)}
              \cup {WithDetail(Raise(HTTPException, m), <<c>>) :
                      m \in Messages, c \in {404, 422, 503}}
              \cup {WithDetail(Raise(HTTPError, "HTTP error"), <<c>>) :
                      c \in {404, 429, 500}}
              \cup {Raise(e, m) :
                      e \in {NonRetryableError, RetryableError, NASAAPIError,
                              Timeout, ConnectionError, ValueError,
                              AttributeError},
                      m \in Messages}}

\* requests of a trajectory: what happens to the asteroid, and whether the
\* scientific libraries were imported
EndpointArgs ==
    {[heavy_libs_available |-> h, asteroid_name |-> "Apophis",
      remote |-> ItemRemote(kind, 0)] :
        h \in BOOLEAN,
        kind \in ItemKinds \cup {"http_400", "connection_error", "bad_json",
                                 "no_object", "no_fullname"}}

\* fetches: a name and the answers to the requests
FetchArgs ==
    {[asteroid_name |-> name, answers |-> an] :
        name \in {"Apophis", ""}, an \in AnswersInputs}

(***************************************************************************)
(* The state machine.                                                      *)
(***************************************************************************)
\* no call of the circuit breaker is under way
NoCallers == [t \in 1..MaxCallers |-> "idle"]

\* no invocation
NoCall == [op |-> "none", args |-> <<>>, result |-> Pending]

\* the process has served nothing yet and is asked for op(a)
Invoked(op, a) ==
    /\ call = op
    /\ args = a
    /\ result = Pending
    /\ nasa_api_circuit_breaker = CircuitBreaker(3, 30)
    /\ clock = 0
    /\ earlier = NoCall
    /\ in_flight = NoCallers
    /\ streak = 0

Init ==
    \/ \E a \in BothArgs : Invoked("calculate_both_trajectories", a)
    \/ \E a \in BothArgsEveryEnv : Invoked("calculate_both_trajectories", a)
    \/ \E a \in EarthArgs : Invoked("get_earth_trajectory", a)
    \/ \E a \in GridArgs : Invoked("create_time_range", a)
    \/ \E a \in ExtractArgs : Invoked("extract_orbital_elements", a)
    \/ \E a \in ImpactArgs : Invoked("calculate_impact_effects", a)
    \/ \E a \in TrajectoryArgs : Invoked("calculate_trajectory", a)
    \/ \E a \in ValidateArgs : Invoked("validate_impact_parameters", a)
    \/ \E a \in RetryArgs : Invoked("retry_on_failure", a)
    \/ \E a \in DeflectedArgs : Invoked("calculate_deflected_trajectory", a)
    \/ \E a \in BatchArgs : Invoked("get_top_10_nearest", a)
    \/ \E a \in ErrorArgs : Invoked("handle_api_errors", a)
    \/ \E a \in EndpointArgs : Invoked("get_trajectory", a)
    \/ \E a \in FetchArgs : Invoked("fetch_asteroid_data", a)

CalculateBothTrajectories ==
    /\ call = "calculate_both_trajectories"
    /\ result.status = "pending"
    /\ result' = calculate_both_trajectories(args.orbital_elements,
                                              args.num_points, args.env)
    /\ UNCHANGED <<call, args, nasa_api_circuit_breaker, clock, earlier, in_flight, streak>>

GetEarthTrajectory ==
    /\ call = "get_earth_trajectory"
    /\ result.status = "pending"
    /\ result' = get_earth_trajectory(args.times, args.env)
    /\ UNCHANGED <<call, args, nasa_api_circuit_breaker, clock, earlier, in_flight, streak>>

CreateTimeRange ==
    /\ call = "create_time_range"
    /\ result.status = "pending"
    /\ result' = create_time_range(args.start_time, args.end_time,
                                    args.num_points)
    /\ UNCHANGED <<call, args, nasa_api_circuit_breaker, clock, earlier, in_flight, streak>>

ExtractOrbitalElements ==
    /\ call = "extract_orbital_elements"
    /\ result.status = "pending"
    /\ result' = extract_orbital_elements(args.nasa_response)
    /\ UNCHANGED <<call, args, nasa_api_circuit_breaker, clock, earlier, in_flight, streak>>

CalculateImpactEffects ==
    /\ call = "calculate_impact_effects"
    /\ result.status = "pending"
    /\ result' = calculate_impact_effects(args.diameter_km, args.velocity_kps,
                                           args.asteroid_density_kg_m3,
                                           args.target_density_kg_m3)
    /\ UNCHANGED <<call, args, nasa_api_circuit_breaker, clock, earlier, in_flight, streak>>

CalculateTrajectory ==
    /\ call = "calculate_trajectory"
    /\ result.status = "pending"
    /\ result' = calculate_trajectory(args.orbital_elements, args.num_points,
                                       args.times, args.env)
    /\ UNCHANGED <<call, args, nasa_api_circuit_breaker, clock, earlier, in_flight, streak>>

ValidateImpactParameters ==
    /\ call = "validate_impact_parameters"
    /\ result.status = "pending"
    /\ LET message == validate_impact_parameters(args.diameter_km,
                                                  args.velocity_kps,
                                                  args.density_kg_m3)
       IN  result' = IF message = "" THEN Return(<<>>)
                     ELSE Raise(ImpactCalculationError, message)
    /\ UNCHANGED <<call, args, nasa_api_circuit_breaker, clock, earlier, in_flight, streak>>

\* a call of a function decorated with retry_on_failure(max_attempts,
\* exceptions=exceptions), with the default delay and backoff
RetryOnFailure ==
    /\ call = "retry_on_failure"
    /\ result.status = "pending"
    /\ result' = retry_on_failure(args.max_attempts, 1, 2, args.exceptions,
                                   args.func)
    /\ UNCHANGED <<call, args, nasa_api_circuit_breaker, clock, earlier, in_flight, streak>>

\* the outcome is returned; the circuit breaker and the time are those the
\* invocation left
Served(done) ==
    /\ result' = done.outcome
    /\ nasa_api_circuit_breaker' = done.breaker
    /\ clock' = done.clock

CalculateDeflectedTrajectory ==
    /\ call = "calculate_deflected_trajectory"
    /\ result.status = "pending"
    /\ Served(calculate_deflected_trajectory(
                  args.asteroid_name, args.delta_v_mps, args.days_from_epoch,
                  args.num_points, args.remote, nasa_api_circuit_breaker,
                  clock))
    /\ UNCHANGED <<call, args, earlier, in_flight, streak>>

GetTop10Nearest ==
    /\ call = "get_top_10_nearest"
    /\ result.status = "pending"
    /\ Served(get_top_10_nearest(args.top_asteroids, args.guaranteed_remote,
                                  nasa_api_circuit_breaker, clock))
    /\ UNCHANGED <<call, args, earlier, in_flight, streak>>

\* an endpoint decorated with handle_api_errors returns or raises
HandleApiErrors ==
    /\ call = "handle_api_errors"
    /\ result.status = "pending"
    /\ result' = handle_api_errors(args.outcome)
    /\ UNCHANGED <<call, args, nasa_api_circuit_breaker, clock, earlier, in_flight, streak>>

GetTrajectory ==
    /\ call = "get_trajectory"
    /\ result.status = "pending"
    /\ Served(get_trajectory(args.heavy_libs_available, args.asteroid_name,
                              args.remote, nasa_api_circuit_breaker, clock))
    /\ UNCHANGED <<call, args, earlier, in_flight, streak>>

FetchAsteroidData ==
    /\ call = "fetch_asteroid_data"
    /\ result.status = "pending"
    /\ Served(fetch_asteroid_data(args.asteroid_name, args.answers,
                                   nasa_api_circuit_breaker, clock))
    /\ UNCHANGED <<call, args, earlier, in_flight, streak>>

Next ==
    \/ CalculateBothTrajectories
    \/ GetEarthTrajectory
    \/ CreateTimeRange
    \/ ExtractOrbitalElements
    \/ CalculateImpactEffects
    \/ CalculateTrajectory
    \/ ValidateImpactParameters
    \/ RetryOnFailure
    \/ CalculateDeflectedTrajectory
    \/ GetTop10Nearest
    \/ HandleApiErrors
    \/ GetTrajectory
    \/ FetchAsteroidData

Spec == Init /\ [][Next]_vars

(***************************************************************************)
(* A process serving one invocation of a core entry point after another.   *)
(* call, args and result are those of the invocation served last; earlier  *)
(* remembers one of the invocations served before it.  The circuit breaker *)
(* of nasa_client is created when the process starts and lives as long.    *)
(***************************************************************************)
\* seconds after which the process is no longer followed
MaxClock == 60

SessionBothArgs ==
    {[orbital_elements |-> SampleElements(Fin(24610005)), num_points |-> np,
      env |-> env] :
        np \in {IntArg(2), IntArg(3)},
        env \in {NoFailures, [NoFailures EXCEPT !.ephem_fail = {2}]}}

SessionDeflectedArgs ==
    {[asteroid_name |-> "Apophis", delta_v_mps |-> Fin(10),
      days_from_epoch |-> 100, num_points |-> IntArg(2),
      remote |-> [answers |-> <<a, a, a>>, orbit_fail |-> FALSE,
                  prop_fail |-> {}]] :
        a \in {Found(GoodResponse), Answer("http_404"), Answer("http_500")}}

SessionImpactArgs ==
    {[diameter_km |-> d, velocity_kps |-> Fin(20),
      asteroid_density_kg_m3 |-> Fin(3000),
      target_density_kg_m3 |-> Fin(2500)] : d \in {Fin(0), Fin(1)}}

SessionInit ==
    /\ call = NoCall.op
    /\ args = NoCall.args
    /\ result = NoCall.result
    /\ nasa_api_circuit_breaker = CircuitBreaker(3, 30)
    /\ clock = 0
    /\ earlier = NoCall
    /\ in_flight = NoCallers
    /\ streak = 0

\* the invocation served last is remembered, or the one remembered stays
Remember ==
    /\ earlier' \in {earlier, [op |-> call, args |-> args, result |-> result]}
    /\ UNCHANGED <<in_flight, streak>>

ServeBothTrajectories ==
    /\ \E a \in SessionBothArgs :
           /\ call' = "calculate_both_trajectories"
           /\ args' = a
           /\ result' = calculate_both_trajectories(a.orbital_elements,
                                                     a.num_points, a.env)
    /\ Remember
    /\ UNCHANGED <<nasa_api_circuit_breaker, clock>>

ServeDeflectedTrajectory ==
    /\ clock < MaxClock
    /\ \E a \in SessionDeflectedArgs :
           /\ call' = "calculate_deflected_trajectory"
           /\ args' = a
           /\ Served(calculate_deflected_trajectory(
                         a.asteroid_name, a.delta_v_mps, a.days_from_epoch,
                         a.num_points, a.remote, nasa_api_circuit_breaker,
                         clock))
    /\ Remember

ServeImpactEffects ==
    /\ \E a \in SessionImpactArgs :
           /\ call' = "calculate_impact_effects"
           /\ args' = a
           /\ result' = calculate_impact_effects(a.diameter_km, a.velocity_kps,
                                                  a.asteroid_density_kg_m3,
                                                  a.target_density_kg_m3)
    /\ Remember
    /\ UNCHANGED <<nasa_api_circuit_breaker, clock>>

ServeAsteroidData ==
    /\ clock < MaxClock
    /\ \E a \in SessionDeflectedArgs :
           /\ call' = "get_asteroid_data"
           /\ args' = [asteroid_name |-> a.asteroid_name, remote |-> a.remote]
           /\ Served(get_asteroid_data(a.asteroid_name, a.remote.answers,
                                        nasa_api_circuit_breaker, clock))
    /\ Remember

\* the recovery timeout of the circuit breaker passes between two invocations
TimePasses ==
    /\ clock + nasa_api_circuit_breaker.recovery_timeout <= MaxClock
    /\ clock' = clock + nasa_api_circuit_breaker.recovery_timeout
    /\ UNCHANGED <<call, args, result, nasa_api_circuit_breaker, earlier, in_flight, streak>>

SessionNext ==
    \/ ServeBothTrajectories
    \/ ServeDeflectedTrajectory
    \/ ServeImpactEffects
    \/ ServeAsteroidData
    \/ TimePasses

Session == SessionInit /\ [][SessionNext]_vars

(***************************************************************************)
(* A CircuitBreaker and its callers.  A call enters the wrapper, where it  *)
(* is rejected or let in; the wrapped function then runs while time passes *)
(* and other callers enter; when it returns or raises, the wrapper records *)
(* the success or the failure.  nasa_api_circuit_breaker holds the breaker *)
(* and result the outcome of the call that completed last.                 *)
(***************************************************************************)
RECOVERY_TIMEOUT == 30

BreakerInit ==
    /\ call = NoCall.op
    /\ args = NoCall.args
    /\ result = NoCall.result
    /\ \E failure_threshold \in 1..MaxThreshold :
           nasa_api_circuit_breaker =
               CircuitBreaker(failure_threshold, RECOVERY_TIMEOUT)
    /\ clock = 0
    /\ earlier = NoCall
    /\ in_flight = NoCallers
    /\ streak = 0

\* the error of a call the wrapper rejects
Rejected ==
    WithEffects(Raise("Exception", "Circuit breaker is OPEN"),
                [calls |-> 0, slept |-> 0])

\* one more call raised, counted up to failure_threshold
Raised == IF streak < nasa_api_circuit_breaker.failure_threshold
          THEN streak + 1
          ELSE streak

\* caller t enters the wrapper: its call is rejected, or the wrapped
\* function is invoked
Enter(t) ==
    /\ in_flight[t] = "idle"
    /\ call' = "CircuitBreaker.__call__"
    /\ args' = [caller |-> t, let_in |-> "idle"]
    /\ IF /\ nasa_api_circuit_breaker.state = "OPEN"
          /\ ~should_attempt_reset(nasa_api_circuit_breaker, clock)
       THEN /\ result' = Rejected
            /\ streak' = Raised
            /\ UNCHANGED <<nasa_api_circuit_breaker, in_flight>>
       ELSE /\ nasa_api_circuit_breaker' =
                  IF nasa_api_circuit_breaker.state = "OPEN"
                  THEN [nasa_api_circuit_breaker EXCEPT !.state = "HALF_OPEN"]
                  ELSE nasa_api_circuit_breaker
            /\ in_flight' =
                  [in_flight EXCEPT ![t] = nasa_api_circuit_breaker'.state]
            /\ result' = Pending
            /\ UNCHANGED streak
    /\ UNCHANGED <<clock, earlier>>

\* the wrapped function of caller t returns
FuncReturns(t) ==
    /\ in_flight[t] # "idle"
    /\ call' = "CircuitBreaker.__call__"
    /\ args' = [caller |-> t, let_in |-> in_flight[t]]
    /\ nasa_api_circuit_breaker' = on_success(nasa_api_circuit_breaker)
    /\ result' = WithEffects(Return(<<>>), [calls |-> 1, slept |-> 0])
    /\ in_flight' = [in_flight EXCEPT ![t] = "idle"]
    /\ streak' = 0
    /\ UNCHANGED <<clock, earlier>>

\* the wrapped function of caller t raises
FuncRaises(t) ==
    /\ in_flight[t] # "idle"
    /\ call' = "CircuitBreaker.__call__"
    /\ args' = [caller |-> t, let_in |-> in_flight[t]]
    /\ nasa_api_circuit_breaker' = on_failure(nasa_api_circuit_breaker, clock)
    /\ result' = WithEffects(Raise("Exception", "failed"),
                             [calls |-> 1, slept |-> 0])
    /\ in_flight' = [in_flight EXCEPT ![t] = "idle"]
    /\ streak' = Raised
    /\ UNCHANGED <<clock, earlier>>

\* half the recovery timeout passes
HalfTimeoutPasses ==
    /\ clock + RECOVERY_TIMEOUT \div 2 <= MaxClock
    /\ clock' = clock + RECOVERY_TIMEOUT \div 2
    /\ UNCHANGED <<call, args, result, nasa_api_circuit_breaker, earlier, in_flight, streak>>

EnterAlone == Enter(1)
ReturnAlone == FuncReturns(1)
RaiseAlone == FuncRaises(1)

BreakerNext ==
    \/ EnterAlone
    \/ ReturnAlone
    \/ RaiseAlone
    \/ HalfTimeoutPasses

Breaker == BreakerInit /\ [][BreakerNext]_vars

EnterAny == \E t \in 1..MaxCallers : Enter(t)
ReturnAny == \E t \in 1..MaxCallers : FuncReturns(t)
RaiseAny == \E t \in 1..MaxCallers : FuncRaises(t)

ConcurrentNext ==
    \/ EnterAny
    \/ ReturnAny
    \/ RaiseAny
    \/ HalfTimeoutPasses

Concurrent == BreakerInit /\ [][ConcurrentNext]_vars

(***************************************************************************)
(* Properties.                                                             *)
(***************************************************************************)
BothDone ==
    call = "calculate_both_trajectories" /\ result.status # "pending"
BothReturned ==
    call = "calculate_both_trajectories" /\ result.status = "ok"

\* the elements pass validate_orbital_elements and the epoch window
ValidElements(oe) ==
    /\ oe.is_oe
    /\ validate_orbital_elements(oe).status = "ok"
    /\ ~epoch_out_of_range(oe.epoch)

\* the grid indices up to n that are in the set s
Upto(s, n) == {i \in s : i <= n}

\* C1: whenever calculate_both_trajectories returns a result, asteroid_path
\* and earth_path both have exactly num_points entries (and num_points is in
\* 2..10000), whichever propagations failed and whichever Earth points used
\* the fallback.
C1_PathLengths ==
    BothReturned =>
        /\ Len(result.value.asteroid_path) = args.num_points.val
        /\ Len(result.value.earth_path) = args.num_points.val
        /\ args.num_points.val \in 2..MAX_NUM_POINTS

\* a returned result with a failed propagation and a fallback Earth point
C1_Witness ==
    /\ BothReturned
    /\ ValidElements(args.orbital_elements)
    /\ Upto(args.env.prop_fail, args.num_points.val) # {}
    /\ Upto(args.env.ephem_fail, args.num_points.val) # {}

\* C2 as stated: in every result, at every index i, asteroid_path[i] and
\* earth_path[i] are both positions for the i-th instant of the shared grid,
\* also after locally recovered failures.
C2_EveryIndexSameInstant ==
    BothReturned =>
        \A i \in 1..args.num_points.val :
            /\ result.value.asteroid_path[i].t = result.effects.grid[i]
            /\ result.value.earth_path[i].t = result.effects.grid[i]

\* C2 amended: earth_path[i] is always Earth's position for the i-th instant
\* of the shared grid (ephemeris, or the circular approximation for that
\* instant); asteroid_path[i] is the asteroid's position for the i-th
\* instant wherever propagation at i succeeded, and where it failed it is a
\* copy of asteroid_path[i-1] (a position of an earlier instant), or
\* [0,0,0] at the first index.
C2_AlignedWherePropagated ==
    BothReturned =>
        \A i \in 1..args.num_points.val :
            /\ result.value.earth_path[i].t = result.effects.grid[i]
            /\ result.value.earth_path[i].kind \in {"ephemeris", "circular"}
            /\ i \notin args.env.prop_fail =>
                   result.value.asteroid_path[i]
                       = Propagated(result.effects.grid[i])
            /\ i \in args.env.prop_fail =>
                   result.value.asteroid_path[i]
                       = IF i = 1 THEN ZeroPoint
                         ELSE result.value.asteroid_path[i - 1]

\* a result whose second asteroid point is the recovered copy of the first
\* and which holds a fallback Earth point
C2_Witness ==
    /\ BothReturned
    /\ 1 \notin args.env.prop_fail
    /\ 2 \in args.env.prop_fail
    /\ result.value.asteroid_path[2].t = result.effects.grid[1]
    /\ \E i \in 1..args.num_points.val :
           result.value.earth_path[i].kind = "circular"

EarthDone == call = "get_earth_trajectory" /\ result.status # "pending"

\* the number of grid points whose ephemeris lookup failed
FallbackCount == Cardinality(Upto(args.env.ephem_fail, Len(args.times)))

\* the circular fallback answered at every point that used it
FallbackSucceeded ==
    \A i \in Upto(args.env.ephem_fail, Len(args.times)) :
        i \notin args.env.fallback_fail

\* C3: get_earth_trajectory over N points, f of them through a succeeding
\* fallback, fails if and only if 2f > N (with the degradation error); when
\* 2f <= N, exactly half included, it returns all N points.
C3_FailsIffMoreThanHalf ==
    (EarthDone /\ args.times # <<>> /\ FallbackSucceeded) =>
        /\ result.status = "error" <=> 2 * FallbackCount > Len(args.times)
        /\ result.status = "error" =>
               result.msg = "Earth ephemeris data unavailable"
        /\ result.status = "ok" => Len(result.value) = Len(args.times)

\* exactly half of the points used the fallback and the path was returned
C3_Witness ==
    /\ EarthDone
    /\ FallbackCount > 0
    /\ 2 * FallbackCount = Len(args.times)
    /\ FallbackSucceeded
    /\ result.status = "ok"

\* C6: a call that passes the argument checks fails with the epoch-range
\* error if and only if its finite epoch is < 2415020.5 or > 2488070.5 (the
\* two bounds are accepted), and that rejection comes before the grid is
\* built and before any propagation or ephemeris lookup.
C6_EpochWindow ==
    (/\ BothDone
     /\ args.orbital_elements.is_oe
     /\ args.num_points.is_int
     /\ args.num_points.val > 0
     /\ isfinite(args.orbital_elements.epoch)) =>
        /\ result.msg = "Epoch is outside reasonable range"
               <=> \/ args.orbital_elements.epoch.val < EPOCH_MIN
                   \/ args.orbital_elements.epoch.val > EPOCH_MAX
        /\ result.msg = "Epoch is outside reasonable range" =>
               /\ result.status = "error"
               /\ result.exc = ImpactCalculationError
               /\ result.effects = NoEffects
        /\ args.orbital_elements.epoch.val \in {EPOCH_MIN, EPOCH_MAX} =>
               result.msg # "Epoch is outside reasonable range"

\* the lower bound itself went through to a returned result
C6_Witness ==
    /\ BothReturned
    /\ args.orbital_elements.epoch = Fin(EPOCH_MIN)
    /\ result.effects.grid # <<>>

\* the call is for valid elements, with an ephemeris that answers
WorkingProviders ==
    /\ ValidElements(args.orbital_elements)
    /\ ~args.env.orbit_fail
    /\ args.env.ephem_fail = {}

InvalidArgumentMessages ==
    {"Invalid num_points", "num_points must be at least 2",
     "num_points too large"}

\* C7 as stated: for valid elements and a working ephemeris the call
\* accepts exactly the integers 1..10000 and rejects every other num_points
\* with an invalid-argument error.
C7_AcceptsFromOne ==
    (BothDone /\ WorkingProviders) =>
        /\ result.status = "ok"
               <=> /\ args.num_points.is_int
                   /\ args.num_points.val \in 1..MAX_NUM_POINTS
        /\ result.status = "error" =>
               /\ result.exc = ImpactCalculationError
               /\ result.msg \in InvalidArgumentMessages

\* C7 amended: for valid elements and a working ephemeris the call accepts
\* exactly the integers 2..10000 and rejects every other num_points (1
\* included) with an invalid-argument error.
C7_AcceptsFromTwo ==
    (BothDone /\ WorkingProviders) =>
        /\ result.status = "ok"
               <=> /\ args.num_points.is_int
                   /\ args.num_points.val \in 2..MAX_NUM_POINTS
        /\ result.status = "error" =>
               /\ result.exc = ImpactCalculationError
               /\ result.msg \in InvalidArgumentMessages

\* num_points = 1 was rejected by the grid builder
C7_Witness ==
    /\ BothDone
    /\ WorkingProviders
    /\ args.num_points = IntArg(1)
    /\ result.status = "error"
    /\ result.msg = "num_points must be at least 2"

GridDone == call = "create_time_range" /\ result.status # "pending"

\* C10: create_time_range returns a grid if and only if num_points is an
\* integer in 2..10000 and end_time is strictly after start_time; every
\* other call raises an error and returns no grid.
C10_GridIffValid ==
    GridDone =>
        /\ result.status = "ok"
               <=> /\ args.num_points.is_int
                   /\ args.num_points.val \in 2..MAX_NUM_POINTS
                   /\ args.end_time.jd > args.start_time.jd
        /\ result.status = "ok" => result.value # <<>>
        /\ result.status = "error" =>
               /\ result.exc = ImpactCalculationError
               /\ result.value = <<>>

\* a grid at the cap was returned
C10_Witness ==
    /\ GridDone
    /\ args.num_points = IntArg(MAX_NUM_POINTS)
    /\ result.status = "ok"
    /\ Len(result.value) = MAX_NUM_POINTS

ExtractDone ==
    call = "extract_orbital_elements" /\ result.status # "pending"
ExtractReturned ==
    call = "extract_orbital_elements" /\ result.status = "ok"

\* C4: every OrbitalElements value returned by extract_orbital_elements has
\* all seven fields finite, also for records whose element values parse to
\* NaN or to an infinity.
C4_ReturnedFieldsFinite ==
    ExtractReturned =>
        /\ isfinite(result.value.semi_major_axis)
        /\ isfinite(result.value.eccentricity)
        /\ isfinite(result.value.inclination)
        /\ isfinite(result.value.longitude_ascending_node)
        /\ isfinite(result.value.argument_periapsis)
        /\ isfinite(result.value.mean_anomaly)
        /\ isfinite(result.value.epoch)

ImpactDone ==
    call = "calculate_impact_effects" /\ result.status # "pending"

\* x is a finite number in (0, max]
InDomain(x, max) ==
    /\ IsNumber(x)
    /\ isfinite(x)
    /\ x.val > 0
    /\ x.val <= max

ImpactInputsInDomain ==
    /\ InDomain(args.diameter_km, MAX_DIAMETER_KM)
    /\ InDomain(args.velocity_kps, MAX_VELOCITY_KPS)
    /\ InDomain(args.asteroid_density_kg_m3, MAX_DENSITY_KG_M3)
    /\ InDomain(args.target_density_kg_m3, MAX_DENSITY_KG_M3)

\* C5: calculate_impact_effects returns a result only when diameter is in
\* (0,1000], velocity in (0,100] and both densities in (0,20000], all finite;
\* any input outside its domain raises ImpactCalculationError.
C5_ResultOnlyInDomain ==
    ImpactDone =>
        /\ result.status = "ok" => ImpactInputsInDomain
        /\ ~ImpactInputsInDomain =>
               /\ result.status = "error"
               /\ result.exc = ImpactCalculationError

\* the record's epoch is a parsable finite Julian date inside the window
RecordWithValidEpoch ==
    /\ args.nasa_response.has_orbit
    /\ args.nasa_response.has_elements
    /\ args.nasa_response.has_epoch
    /\ args.nasa_response.epoch.parses
    /\ isfinite(args.nasa_response.epoch.num)
    /\ ~epoch_out_of_range(args.nasa_response.epoch.num)

\* some entry of the record carries a parsable value under the name
HasParsableEntry(name) ==
    \E j \in 1..Len(args.nasa_response.elements) :
        LET element == args.nasa_response.elements[j]
        IN  /\ element.has_name
            /\ element.has_value
            /\ element.name = name
            /\ element.value.parses

\* C8: for a record with a valid epoch, extract_orbital_elements fails with
\* the missing-elements error if and only if one of a, e, i, om, w, ma has
\* no entry carrying a parsable value (entries without name or value, or
\* with an unparsable value, are skipped), and the error lists exactly the
\* required keys that are absent.
C8_MissingIffNoParsableEntry ==
    (ExtractDone /\ RecordWithValidEpoch) =>
        /\ result.msg = "Missing required orbital elements"
               <=> \E k \in 1..Len(RequiredElements) :
                       ~HasParsableEntry(RequiredElements[k])
        /\ result.msg = "Missing required orbital elements" =>
               /\ result.status = "error"
               /\ result.exc = OrbitalCalculationError
               /\ result.detail
                      = SelectSeq(RequiredElements,
                                  LAMBDA name : ~HasParsableEntry(name))

\* a record whose only entry for a key is unparsable was rejected as missing
\* that key, while a skipped entry next to a parsable one was not fatal
C8_Witness ==
    /\ ExtractDone
    /\ RecordWithValidEpoch
    /\ result.msg = "Missing required orbital elements"
    /\ "w" \in {result.detail[k] : k \in 1..Len(result.detail)}
    /\ "a" \notin {result.detail[k] : k \in 1..Len(result.detail)}
    /\ \E j \in 1..Len(args.nasa_response.elements) :
           /\ args.nasa_response.elements[j].name = "w"
           /\ ~args.nasa_response.elements[j].value.parses

\* the values the range checks see: the last parsable entry of each name
Checked(name) ==
    elements_dict(args.nasa_response.elements,
                  Len(args.nasa_response.elements))[name].value

\* C9: extract_orbital_elements returns elements only if a > 0, 0 <= e < 1
\* and 0 <= i <= 180 (e = 0, i = 0 and i = 180 accepted); a <= 0, e >= 1,
\* e < 0, i < 0 and i > 180 are each rejected with the error of the
\* violated range.
C9_ReturnedOnlyInRange ==
    LET inRangeA == FGT(Checked("a"), Fin(0))
        inRangeE == FGE(Checked("e"), Fin(0)) /\ FLT(Checked("e"), Fin(10))
        inRangeI == FGE(Checked("i"), Fin(0)) /\ FLE(Checked("i"), Fin(1800))
    IN  (/\ ExtractDone
         /\ RecordWithValidEpoch
         /\ \A k \in 1..Len(RequiredElements) :
                HasParsableEntry(RequiredElements[k])) =>
            /\ result.status = "ok" <=> inRangeA /\ inRangeE /\ inRangeI
            /\ ~inRangeA =>
                   result.msg = "Semi-major axis must be positive"
            /\ inRangeA /\ ~inRangeE =>
                   result.msg = "Eccentricity must be in range [0, 1)"
            /\ inRangeA /\ inRangeE /\ ~inRangeI =>
                   result.msg = "Inclination must be in range [0, 180]"

\* the instant a of a grid is the instant jd
AtJd(a, jd) == a.num % a.den = 0 /\ a.jd + a.num \div a.den = jd

GridReturned == call = "create_time_range" /\ result.status = "ok"

Abs(x) == IF x < 0 THEN 0 - x ELSE x

\* the gap between entries i and i + 1 of a grid of n entries is span/(n - 1)
\* to within the rounding of the float products (span / 2^(MantissaBits - 2))
EvenGap(grid, i, span) ==
    LET n == Len(grid)
        gap == grid[i + 1].num - grid[i].num
    IN  Abs(gap * (n - 1) - span * grid[i].den) \div (n - 1)
            <= (span * grid[i].den) \div Pow2(MantissaBits - 2)

\* C11: every grid returned by create_time_range(start, end, numPoints) has
\* exactly numPoints entries, is strictly increasing and evenly spaced with
\* step (end - start)/(numPoints - 1) (to within float rounding), its first
\* entry equals start and its last entry equals end.
C11_GridShape ==
    GridReturned =>
        LET grid == result.value
            n == Len(grid)
            span == args.end_time.jd - args.start_time.jd
        IN  /\ n = args.num_points.val
            /\ AtJd(grid[1], args.start_time.jd)
            /\ AtJd(grid[n], args.end_time.jd)
            /\ \A i \in 1..(n - 1) :
                  grid[i].num < grid[i + 1].num /\ EvenGap(grid, i, span)

\* the grid calculate_trajectory iterates over
TrajectoryGrid ==
    IF args.times.given THEN Return(args.times.list)
    ELSE create_time_range(Time(args.orbital_elements.epoch.val),
                           Time(args.orbital_elements.epoch.val + TWO_YEARS),
                           args.num_points)

\* calculate_trajectory reaches its propagation loop
TrajectoryLoopReached ==
    /\ call = "calculate_trajectory" /\ result.status # "pending"
    /\ validate_orbital_elements(args.orbital_elements).status = "ok"
    /\ ~args.env.orbit_fail
    /\ TrajectoryGrid.status = "ok" /\ TrajectoryGrid.value # <<>>

\* the indices below i at which propagation succeeded
SucceededBefore(i) == {j \in 1..(i - 1) : j \notin args.env.prop_fail}

Max(s) == CHOOSE x \in s : \A y \in s : y <= x

ValidateDone ==
    call = "validate_impact_parameters" /\ result.status # "pending"

\* the message names a field of the call that is out of its domain, and the
\* bound that field violates
NamesOffendingField(msg) ==
    LET d == args.diameter_km
        v == args.velocity_kps
        rho == args.density_kg_m3
    IN  \/ msg = "Invalid diameter" /\ ~(IsNumber(d) /\ isfinite(d))
        \/ msg = "Diameter must be positive" /\ isfinite(d) /\ d.val <= 0
        \/ msg = "Diameter too large" /\ isfinite(d) /\ d.val > 1000
        \/ msg = "Invalid velocity" /\ ~(IsNumber(v) /\ isfinite(v))
        \/ msg = "Velocity must be positive" /\ isfinite(v) /\ v.val <= 0
        \/ msg = "Velocity too high" /\ isfinite(v) /\ v.val > 100
        \/ msg = "Invalid density" /\ ~(IsNumber(rho) /\ isfinite(rho))
        \/ msg = "Density must be positive" /\ isfinite(rho) /\ rho.val <= 0
        \/ msg = "Density too high" /\ isfinite(rho) /\ rho.val > 20000

ReturnedAngle(name) ==
    IF name = "om" THEN result.value.longitude_ascending_node
    ELSE IF name = "w" THEN result.value.argument_periapsis
    ELSE result.value.mean_anomaly

\* C16: for every finite input angle (negative, in range, or >= 360), the
\* om, w and ma returned by extract_orbital_elements lie in [0,360) and are
\* congruent to the input modulo 360; angles already in [0,360) are returned
\* unchanged.
C16_AnglesNormalized ==
    ExtractReturned =>
        \A name \in {"om", "w", "ma"} :
            isfinite(Checked(name)) =>
                /\ isfinite(ReturnedAngle(name))
                /\ FGE(ReturnedAngle(name), Fin(0))
                /\ FLT(ReturnedAngle(name), Fin(3600))
                /\ (FRank(ReturnedAngle(name)) - FRank(Checked(name)))
                      % (2 * 3600) = 0
                /\ (FGE(Checked(name), Fin(0)) /\ FLT(Checked(name), Fin(3600)))
                      => ReturnedAngle(name) = Checked(name)

RetryDone == call = "retry_on_failure" /\ result.status # "pending"

\* the k-th invocation raises an exception the decorator retries
RaisesRetryable(k) ==
    /\ args.func[k].status = "error"
    /\ IsInstance(args.func[k].exc, args.exceptions)
    /\ args.func[k].exc # NonRetryableError

\* C20: for retry_on_failure with max_attempts >= 1, the wrapped function is
\* invoked at least once and at most max_attempts times; invocation stops at
\* the first success, whose value is returned; if every attempt raises a
\* retryable exception the function is invoked exactly max_attempts times and
\* the last exception is raised to the caller.
C20_RetryAttempts ==
    (RetryDone /\ args.max_attempts >= 1) =>
        LET calls == result.effects.calls
            last == args.func[calls]
        IN  /\ calls \in 1..args.max_attempts
            /\ \A k \in 1..(calls - 1) : args.func[k].status = "error"
            /\ last.status = "ok" =>
                  result.status = "ok" /\ result.value = last.value
            /\ \A k \in 1..args.max_attempts :
                  (args.func[k].status = "ok"
                   /\ \A j \in 1..(k - 1) : RaisesRetryable(j))
                  => calls = k /\ result.status = "ok"
                     /\ result.value = args.func[k].value
            /\ (\A k \in 1..args.max_attempts : RaisesRetryable(k)) =>
                  /\ calls = args.max_attempts
                  /\ result.status = "error"
                  /\ result.exc = last.exc
                  /\ result.detail = <<args.max_attempts>>

\* three retryable failures with max_attempts = 3: the third exception is
\* raised after three invocations
C20_Witness ==
    /\ RetryDone
    /\ args.max_attempts = 3
    /\ \A k \in 1..3 : RaisesRetryable(k)
    /\ result.effects.calls = 3
    /\ result.status = "error"
    /\ result.detail = <<3>>

\* the grid points at which the ephemeris lookup and the fallback both fail
BothFailAt ==
    {i \in 1..Len(args.times) :
        /\ Len(args.times) > 1
        /\ i \in args.env.ephem_fail
        /\ i \in args.env.fallback_fail}

\* C19: in get_earth_trajectory, if at some grid point both the ephemeris
\* lookup and the circular fallback fail, the whole call fails with an error
\* at that point: no path, partial or complete, is returned and no later grid
\* point is processed.
C19_BothFailIsFatal ==
    (EarthDone /\ BothFailAt # {}) =>
        /\ result.status = "error"
        /\ result.exc = ImpactCalculationError
        /\ result.msg = "Both ephemeris and fallback calculations failed"
        /\ result.value = <<>>
        /\ result.effects.lookups \in BothFailAt
        /\ \A i \in BothFailAt : result.effects.lookups <= i

\* the fallback fails at the second of at least three grid points, after a
\* first point answered by the ephemeris
C19_Witness ==
    /\ EarthDone
    /\ Len(args.times) >= 3
    /\ BothFailAt = {2}
    /\ 1 \notin args.env.ephem_fail
    /\ result.status = "error"
    /\ result.effects.lookups = 2

DeflectedDone ==
    call = "calculate_deflected_trajectory" /\ result.status # "pending"

\* the asteroid is fetched and its elements extracted, the deflected orbit
\* is built and num_points is a positive integer
DeflectedLoopReached ==
    /\ DeflectedDone
    /\ LET fetched == get_asteroid_data(args.asteroid_name, args.remote.answers,
                                         CircuitBreaker(3, 30), 0)
       IN  /\ fetched.outcome.status = "ok"
           /\ extract_orbital_elements(fetched.outcome.value).status = "ok"
    /\ ~args.remote.orbit_fail
    /\ args.num_points.is_int
    /\ args.num_points.val >= 1

\* the samples of the deflected orbit whose propagation fails
FailedSamples == args.remote.prop_fail \cap (1..args.num_points.val)

\* point is the propagation to sample i of the deflected orbit, which lies
\* (i - 1) * 365 / num_points days after the deflected epoch, to within a
\* tenth of a day
SampledAt(point, i) ==
    /\ point.kind = "propagated"
    /\ Abs(point.t.num * args.num_points.val - (i - 1) * 3650 * point.t.den)
         <= point.t.den * args.num_points.val

\* C18: in calculate_deflected_trajectory, a propagation failure at a sample
\* of the deflected orbit does not fail the call: the sample is skipped, later
\* samples are still computed, path_points = len(deflected_path) =
\* num_points minus the number of failed samples, and the surviving samples
\* stay in time order.
C18_FailedSamplesSkipped ==
    DeflectedLoopReached =>
        /\ result.status = "ok"
        /\ result.value.success
        /\ result.value.path_points = Len(result.value.deflected_path)
        /\ result.value.path_points =
               args.num_points.val - Cardinality(FailedSamples)
        /\ \A i \in (1..args.num_points.val) \ FailedSamples :
               \E k \in 1..Len(result.value.deflected_path) :
                   SampledAt(result.value.deflected_path[k], i)
        /\ \A j, k \in 1..Len(result.value.deflected_path) :
               j < k => result.value.deflected_path[j].t.num
                          < result.value.deflected_path[k].t.num

\* the second of four samples fails and the other three are returned
C18_Witness ==
    /\ DeflectedLoopReached
    /\ args.num_points.val = 4
    /\ FailedSamples = {2}
    /\ result.status = "ok"
    /\ result.value.path_points = 3

BatchDone == call = "get_top_10_nearest" /\ result.status # "pending"

\* processed alone by a process that has served nothing yet, the entry is
\* fetched, its elements are extracted and its trajectories are computed
SucceedsAlone(entry) ==
    /\ Sanitize(entry.name) # ""
    /\ try_asteroid([trajectories |-> <<>>, successful_calculations |-> 0,
                      breaker |-> CircuitBreaker(3, 30), clock |-> 0],
                     Sanitize(entry.name), entry.remote
                    ).successful_calculations = 1

\* C14: in the batch loop of get_top_10_nearest, a failure while processing
\* one asteroid (fetch, element extraction or trajectory computation) never
\* prevents a later asteroid of the same batch, whose own fetch and
\* computation would succeed on their own, from being computed and included
\* in the returned trajectories.
C14_FailureIsolated ==
    BatchDone =>
        \A k \in 1..Len(args.top_asteroids) :
            SucceedsAlone(args.top_asteroids[k]) =>
                Sanitize(args.top_asteroids[k].name) \in DOMAIN result.value

CoreEntryPoints ==
    {"calculate_both_trajectories", "calculate_deflected_trajectory",
     "calculate_impact_effects"}

\* the invocation served last has the entry point, the arguments and the
\* answers of the external sources of an invocation served earlier
Repeated == earlier.op = call /\ earlier.args = args

\* C13: no core entry point reads or writes state that persists between
\* invocations: the outcome of an invocation depends only on its arguments
\* and on the external sources' answers to it, never on how earlier
\* invocations ended.
C13_NoPersistentState ==
    (call \in CoreEntryPoints /\ Repeated) => earlier.result = result

RaisesNonRetryable(k) ==
    /\ args.func[k].status = "error"
    /\ args.func[k].exc = NonRetryableError

\* C21: for retry_on_failure with any max_attempts >= 1, when the wrapped
\* function raises NonRetryableError it is invoked exactly once: no retry and
\* no backoff sleep follows, and the NonRetryableError itself propagates to
\* the caller.  An invocation reached after retryable failures that raises
\* NonRetryableError is the last one as well.
C21_NonRetryableNotRetried ==
    (RetryDone /\ args.max_attempts >= 1) =>
        /\ RaisesNonRetryable(1) =>
              /\ result.effects.calls = 1
              /\ result.effects.slept = 0
              /\ result.status = "error"
              /\ result.exc = NonRetryableError
              /\ result.detail = <<1>>
        /\ \A k \in 1..result.effects.calls :
              RaisesNonRetryable(k) =>
                  /\ result.effects.calls = k
                  /\ result.effects.slept = SleptBefore(k - 1, 1, 2)
                  /\ result.exc = NonRetryableError
                  /\ result.detail = <<k>>

\* the decorator catches every Exception and would retry twice more, and the
\* first invocation raises NonRetryableError
C21_Witness ==
    /\ RetryDone
    /\ args.max_attempts = 3
    /\ args.exceptions = {"Exception"}
    /\ RaisesNonRetryable(1)
    /\ result.effects.calls = 1
    /\ result.exc = NonRetryableError

\* no call of the circuit breaker is under way
Quiescent == in_flight = NoCallers

\* the recovery timeout has elapsed since the last recorded failure
TimeoutElapsed ==
    clock - nasa_api_circuit_breaker.last_failure_time
        >= nasa_api_circuit_breaker.recovery_timeout

C29_StateMatchesCount ==
    (call = "CircuitBreaker.__call__" /\ Quiescent) =>
        /\ nasa_api_circuit_breaker.state = "CLOSED"
              <=> nasa_api_circuit_breaker.failure_count
                     < nasa_api_circuit_breaker.failure_threshold
        /\ nasa_api_circuit_breaker.state = "OPEN"
              <=> nasa_api_circuit_breaker.failure_count
                     >= nasa_api_circuit_breaker.failure_threshold
        /\ nasa_api_circuit_breaker.state # "HALF_OPEN"
        /\ result.status = "ok" =>
              /\ nasa_api_circuit_breaker.failure_count = 0
              /\ nasa_api_circuit_breaker.state = "CLOSED"

\* a trial call let through in HALF_OPEN failed: the count is past the
\* threshold and the breaker is OPEN
C29_Witness ==
    /\ call = "CircuitBreaker.__call__" /\ Quiescent
    /\ args.let_in = "HALF_OPEN"
    /\ result.status = "error" /\ result.effects.calls = 1
    /\ nasa_api_circuit_breaker.failure_count
          > nasa_api_circuit_breaker.failure_threshold
    /\ nasa_api_circuit_breaker.state = "OPEN"

\* C30: with concurrent callers, while the breaker is HALF_OPEN at most one
\* call let through since the recovery timeout elapsed is inside the wrapped
\* function.
C30_OneTrialAtATime ==
    nasa_api_circuit_breaker.state = "HALF_OPEN" =>
        Cardinality({t \in 1..MaxCallers : in_flight[t] = "HALF_OPEN"}) <= 1

HandledDone == call = "handle_api_errors" /\ result.status # "pending"

\* no rule of map_error_to_http_status names the exception: it is not a
\* NonRetryableError saying "not found", "invalid request" or "invalid json",
\* not an HTTPError with status 404 or 429, not a Timeout, not a
\* ConnectionError, and its text says neither "validation" nor "invalid"
NoSpecificRule(error) ==
    /\ error.exc \notin {Timeout, ConnectionError}
    /\ ~(error.exc = HTTPError /\ error.detail \in {<<404>>, <<429>>})
    /\ PhrasesIn(error.msg) = {}

\* C24: handle_api_errors re-raises an HTTPException unchanged and converts
\* every other exception into an HTTPException whose status is the one
\* map_error_to_http_status returns; map_error_to_http_status returns a
\* (status, message) pair for every exception, and status 500 for an
\* exception that matches no specific rule.
C24_ErrorsBecomeHttpErrors ==
    (HandledDone /\ args.outcome.status = "error") =>
        IF args.outcome.exc = HTTPException
        THEN result = args.outcome
        ELSE /\ map_error_to_http_status(args.outcome).status = "ok"
             /\ result.status = "error"
             /\ result.exc = HTTPException
             /\ result.detail =
                   <<map_error_to_http_status(args.outcome).value[1]>>
             /\ NoSpecificRule(args.outcome) => result.detail = <<500>>

TrajectoryDone == call = "get_trajectory" /\ result.status # "pending"

\* the element fetch of the request fails with a NASAAPIError whose message
\* says the asteroid was not found
FetchSaysNotFound ==
    LET fetched == get_asteroid_data(args.asteroid_name, args.remote.answers,
                                     CircuitBreaker(3, 30), 0).outcome
    IN  /\ fetched.status = "error"
        /\ fetched.exc = NASAAPIError
        /\ "not found" \in PhrasesIn(fetched.msg)

\* C25: GET /api/trajectory/{asteroid_name} answers with status 404 when the
\* element fetch fails with a NASAAPIError saying the asteroid was not
\* found: what leaves the endpoint is the HTTPException with status 404, not
\* another exception raised while handling the failure.
C25_NotFoundIs404 ==
    (TrajectoryDone /\ args.heavy_libs_available /\ FetchSaysNotFound) =>
        /\ result.status = "error"
        /\ result.exc = HTTPException
        /\ result.detail = <<404>>

FetchDone == call = "fetch_asteroid_data" /\ result.status # "pending"

\* C26: when the data source answers with an object that lacks fullname,
\* fetch_asteroid_data issues exactly one HTTP request and raises a
\* NonRetryableError: the not-found is never retried.
C26_NotFoundFetchedOnce ==
    (/\ FetchDone
     /\ args.asteroid_name # ""
     /\ args.answers[1].kind = "no_fullname") =>
        /\ result.status = "error"
        /\ result.exc = NonRetryableError
        /\ result.effects.calls = 1
        /\ result.effects.slept = 0

\* C27: get_asteroid_data returns the fetched record or raises NASAAPIError,
\* whatever the state of the retries and of the circuit breaker.
C27_OnlyNasaApiError ==
    (call = "get_asteroid_data" /\ result.status # "pending") =>
        \/ /\ result.status = "ok"
           /\ \E k \in 1..3 : /\ args.remote.answers[k].kind = "ok"
                               /\ result.value = args.remote.answers[k].data
        \/ result.status = "error" /\ result.exc = NASAAPIError

\* C28: the samples of the deflected path cover the 365 days from the
\* maneuver instant, end points included: as many samples as num_points, the
\* first at the maneuver instant and the last 365 days later, to within a
\* tenth of a day.
C28_DeflectedSamplesCoverYear ==
    (/\ DeflectedLoopReached
     /\ FailedSamples = {}
     /\ args.num_points.val >= 2) =>
        /\ result.status = "ok"
        /\ Len(result.value.deflected_path) = args.num_points.val
        /\ result.value.deflected_path[1].t.num = 0
        /\ LET last == result.value.deflected_path[args.num_points.val].t
           IN  Abs(last.num - 3650 * last.den) <= last.den
====
